---- MODULE Spec2Model ----
(***************************************************************************)
(* minispdlog (C99 header src/c99/minispdlog.h): the global logger, its    *)
(* circular buffer, the writer thread, the producers' log calls and the    *)
(* lifecycle calls, as a state machine.                                    *)
(*                                                                         *)
(* Sizes are scaled: a "byte" of an entry is one field of the formatted    *)
(* line ("B" the strftime part of the timestamp, "F" its microsecond       *)
(* fraction, "T" the level tag, "M" one message character, "N" the         *)
(* newline), and BUFFER_SIZE / MAX_LOG_ENTRY are small numbers that keep   *)
(* the source's relation BUFFER_SIZE > MAX_LOG_ENTRY.                      *)
(*                                                                         *)
(* The C++ header (class Logger, class LoggerManager) is the second part   *)
(* of the module: the manager's instance, the Logger objects with their    *)
(* queue and worker thread, the logging threads and the thread calling     *)
(* initialize and shutdown. Both libraries write to the same files.        *)
(***************************************************************************)
EXTENDS Integers, Sequences, FiniteSets, TLC

\* ------------------------------------------------------------------ bounds
NumProducers == 2
MsgsPerProducer == 2
MaxCtlCalls == 2
\* lifecycle calls of a run that only starts, switches and stops the logger
MaxLifecycleCalls == 4
\* lifecycle calls of a run that also resets the logger and opens files that fail
MaxFileCalls == 3
MaxFd == 4
RaceCalls == 1
\* the C++ library: logging threads, calls of each, Logger objects ever
\* constructed, calls of LoggerManager::initialize and ::shutdown
NumThreads == 2
MsgsPerThread == 2
MaxLoggers == 2
MaxMgrCalls == 2
\* characters of a format string and arguments of a formatting call
MaxFmtLen == 6
MaxArgs == 3
\* _LOGGER_BUFFER_SIZE (8192) and _LOGGER_MAX_LOG_ENTRY (1024), scaled
BUFFER_SIZE == 7
MAX_LOG_ENTRY == 6

\* --------------------------------------------------------------- constants
LOGGER_STDERR == 2
LOG_DEBUG == 0
LOG_INFO == 1
LOG_WARN == 2
LOG_ERROR == 3
LOG_CRITICAL == 4

LogLevel == {LOG_DEBUG, LOG_INFO, LOG_WARN, LOG_ERROR, LOG_CRITICAL}

Producers == 1..NumProducers
Writer == NumProducers + 1
Ctl == NumProducers + 2

\* file names: NULL is the filename argument "stderr output"; BAD cannot be opened
NULL == "NULL"
BAD == "BAD"
FileNames == {"stdin", "stdout", "stderr", "A", "B"}
CLOSED == "closed"

\* the zero byte of a memset buffer slot
ZeroByte == <<0, 0, 0, "0">>

VARIABLES
    \* static Logger logger; static int logger_initialized; logger_timestamp
    logger_initialized, file, min_level, async_mode,
    buffer, head, tail, count, running,
    mutex, sync_mutex, logger_timestamp,
    \* the writer thread: position and temp_buffer
    wpc, temp,
    \* producers: position, number of calls begun, the call's locals
    pc, callNo, cur,
    \* the thread making lifecycle calls: position, the call's arguments, calls made,
    \* and (history) what each lifecycle call found when it was entered
    cpc, carg, ncalls, clog,
    \* the operating system: descriptor table and file contents
    fdTable, fileData,
    \* history: every file write, every completed log call
    wlog, hist,
    \* C++ header: LoggerManager::LoggerInstance instance
    inst_logger, inst_initialized, inst_mutex,
    \* the Logger objects constructed so far and the members of each
    nloggers, log_file_, mutex_, min_level_, async_mode_,
    log_queue_, stop_thread_, queue_mutex_,
    \* each Logger's worker thread: position, and its local log_message
    worker_thread_, log_message,
    \* the logging threads: position, the Logger reference get() returned, the
    \* call's locals, calls begun, and (history) every finished call
    tpc, tlog, tcur, tcalls, thist,
    \* the thread calling LoggerManager::initialize and ::shutdown: position,
    \* arguments, where the destructor returns to, the Logger being destroyed,
    \* calls made, and (history) every finished call
    mpc, marg, mret, mold, mcalls, mlog,
    \* history: the messages pushed to each Logger's queue, in order
    pushed

logger_vars == <<logger_initialized, file, min_level, async_mode>>
ring_vars == <<buffer, head, tail, count, running>>
writer_vars == <<wpc, temp>>
prod_vars == <<pc, callNo, cur>>
ctl_vars == <<cpc, carg, ncalls, clog>>
os_vars == <<fdTable, fileData>>
inst_vars == <<inst_logger, inst_initialized, inst_mutex>>
obj_vars == <<nloggers, log_file_, mutex_, min_level_, async_mode_,
              log_queue_, stop_thread_, queue_mutex_>>
worker_vars == <<worker_thread_, log_message>>
thr_vars == <<tpc, tlog, tcur, tcalls, thist>>
mgr_vars == <<mpc, marg, mret, mold, mcalls, mlog>>
cpp_vars == <<inst_vars, obj_vars, worker_vars, thr_vars, mgr_vars, pushed>>
\* everything of the C99 library but the files
c99_vars == <<logger_vars, ring_vars, mutex, sync_mutex, logger_timestamp,
              writer_vars, prod_vars, ctl_vars, fdTable, wlog, hist>>
vars == <<c99_vars, fileData, cpp_vars>>

\* ----------------------------------------------------------------- helpers
Min(a, b) == IF a < b THEN a ELSE b

RECURSIVE Repeat(_, _)
Repeat(c, n) == IF n <= 0 THEN <<>> ELSE <<c>> \o Repeat(c, n - 1)

Take(s, n) == SubSeq(s, 1, Min(n, Len(s)))

\* a mutex: whether it is initialized, and the set holding it (empty or one thread)
FreshMutex == [valid |-> TRUE, owner |-> {}]
ZeroMutex == [valid |-> FALSE, owner |-> {}]

\* ------------------------------------------------------- operating system
\* open(filename, O_WRONLY | O_CREAT | O_TRUNC): the lowest free descriptor, or -1
FreeFds == {fd \in 3..MaxFd : fdTable[fd] = CLOSED}

LowestFree == CHOOSE fd \in FreeFds : \A g \in FreeFds : fd <= g

logger_file_open(filename) ==
    IF filename = BAD \/ FreeFds = {} THEN -1 ELSE LowestFree

\* write(fd, data, len): appended to the file the descriptor names; EBADF otherwise
FdIsOpen(fd) == fd \in DOMAIN fdTable /\ fdTable[fd] # CLOSED

FdTarget(fd) == IF FdIsOpen(fd) THEN fdTable[fd] ELSE "EBADF"

logger_file_write(t, fd, data) ==
    /\ wlog' = Append(wlog, [by |-> t, fd |-> fd, to |-> FdTarget(fd), data |-> data])
    /\ fileData' = IF FdIsOpen(fd)
                   THEN [fileData EXCEPT ![fdTable[fd]] = @ \o data]
                   ELSE fileData

\* ------------------------------------------------------------- formatting
\* logger_level_to_string: the tag field of the level
logger_level_to_string(level) ==
    IF level \in LogLevel THEN "T" ELSE "U"

\* strftime(logger_timestamp, ..., "%Y-%m-%d %H:%M:%S") stores the base part and
\* its terminating NUL; snprintf(logger_timestamp + base_len, ..., ".%06ld")
\* then stores the fraction behind it
TimestampBase == <<"B">>
TimestampFull == <<"B", "F">>

\* snprintf(buffer, size, "%s [%s] %s\n", timestamp, tag, message): the whole
\* line it would produce; its return value is the length of that line, the
\* buffer receives the first size - 1 characters
FormatLine(ts, level, message) ==
    ts \o <<logger_level_to_string(level)>> \o message \o <<"N">>

SnprintfStored(line, size) == Take(line, size - 1)

\* vsnprintf(message, sizeof(message), format, args) of logger_write_log_va
VsnprintfStored(message) == Take(message, MAX_LOG_ENTRY - 1)

\* the bytes of an entry, tagged with the call (producer, call number) and the
\* position they have in its line
EntryBytes(p, k, chars) == [i \in 1..Len(chars) |-> <<p, k, i, chars[i]>>]

\* logger_write_log's test of snprintf's return value
\* a length test that is off by one: it lets len = MAX_LOG_ENTRY through
EntryRejectedAboveCap(len) == len <= 0 \/ len > MAX_LOG_ENTRY

\* a length test that lets an over-long entry through, cut to what was stored
EntryRejectedOnErrorOnly(len) == len <= 0

\* len <= 0 || len >= _LOGGER_MAX_LOG_ENTRY
EntryRejected(len) == len <= 0 \/ len >= MAX_LOG_ENTRY

\* the level filter of logger_write_log and logger_write_log_va
\* a level test that also lets nothing through at the floor itself
BelowOrAtFloor(level, floor) == level <= floor

\* level < logger.min_level
BelowFloor(level, floor) == level < floor

NoCall == [lvl |-> 0, msg |-> <<>>, fmt |-> FALSE, floor |-> 0,
           entry |-> <<>>, len |-> 0, sess |-> 0, written |-> 0, rd |-> 0]

Done(p, out, floor, len, entry, acc) ==
    /\ hist' = [hist EXCEPT ![p] = Append(@,
                  [lvl |-> cur[p].lvl, fmt |-> cur[p].fmt, n |-> Len(cur[p].msg),
                   floor |-> floor, out |-> out, len |-> len, entry |-> entry,
                   acc |-> acc, sess |-> cur[p].sess])]
    /\ pc' = [pc EXCEPT ![p] = "idle"]
    /\ cur' = [cur EXCEPT ![p] = NoCall]

\* ------------------------------------------------------- circular buffer
IsNewline(b) == b[4] = "N"

\* the for loop of buffer_write, from iteration i on
\* the copy loop with the head wrapping one slot early
RECURSIVE BufferWriteLoopShortWrap(_, _, _, _, _)
BufferWriteLoopShortWrap(buf, h, c, data, i) ==
    IF i <= Len(data) /\ c < BUFFER_SIZE
    THEN BufferWriteLoopShortWrap([buf EXCEPT ![h] = data[i]],
                                  (h + 1) % (BUFFER_SIZE - 1), c + 1, data, i + 1)
    ELSE [buffer |-> buf, head |-> h, count |-> c, written |-> i - 1]

\* the copy loop letting one byte more in than the ring has room for
RECURSIVE BufferWriteLoopOverfull(_, _, _, _, _)
BufferWriteLoopOverfull(buf, h, c, data, i) ==
    IF i <= Len(data) /\ c <= BUFFER_SIZE
    THEN BufferWriteLoopOverfull([buf EXCEPT ![h] = data[i]],
                                 (h + 1) % BUFFER_SIZE, c + 1, data, i + 1)
    ELSE [buffer |-> buf, head |-> h, count |-> c, written |-> i - 1]

RECURSIVE BufferWriteLoop(_, _, _, _, _)
BufferWriteLoop(buf, h, c, data, i) ==
    IF i <= Len(data) /\ c < BUFFER_SIZE
    THEN BufferWriteLoop([buf EXCEPT ![h] = data[i]],
                         (h + 1) % BUFFER_SIZE, c + 1, data, i + 1)
    ELSE [buffer |-> buf, head |-> h, count |-> c, written |-> i - 1]

\* an extraction loop that takes the newest byte instead of the oldest
RECURSIVE ExtractLoopNewestFirst(_, _, _, _)
ExtractLoopNewestFirst(buf, t, c, out) ==
    IF c > 0 /\ Len(out) < MAX_LOG_ENTRY - 1
    THEN LET b == buf[(t + c - 1) % BUFFER_SIZE]
         IN  IF IsNewline(b)
             THEN [tail |-> t, count |-> c - 1, out |-> Append(out, b)]
             ELSE ExtractLoopNewestFirst(buf, t, c - 1, Append(out, b))
    ELSE [tail |-> t, count |-> c, out |-> out]

\* an extraction loop that does not stop at a newline
RECURSIVE ExtractLoopPastNewline(_, _, _, _)
ExtractLoopPastNewline(buf, t, c, out) ==
    IF c > 0 /\ Len(out) < MAX_LOG_ENTRY - 1
    THEN ExtractLoopPastNewline(buf, (t + 1) % BUFFER_SIZE, c - 1, Append(out, buf[t]))
    ELSE [tail |-> t, count |-> c, out |-> out]

\* an extraction loop whose tail wraps one slot early
RECURSIVE ExtractLoopShortWrap(_, _, _, _)
ExtractLoopShortWrap(buf, t, c, out) ==
    IF c > 0 /\ Len(out) < MAX_LOG_ENTRY - 1
    THEN LET b == buf[t]
             nt == (t + 1) % (BUFFER_SIZE - 1)
         IN  IF IsNewline(b)
             THEN [tail |-> nt, count |-> c - 1, out |-> Append(out, b)]
             ELSE ExtractLoopShortWrap(buf, nt, c - 1, Append(out, b))
    ELSE [tail |-> t, count |-> c, out |-> out]

\* the extraction loop of writer_thread_func: out is temp_buffer[0..bytes_to_write)
RECURSIVE ExtractLoop(_, _, _, _)
ExtractLoop(buf, t, c, out) ==
    IF c > 0 /\ Len(out) < MAX_LOG_ENTRY - 1
    THEN LET b == buf[t]
             nt == (t + 1) % BUFFER_SIZE
         IN  IF IsNewline(b)
             THEN [tail |-> nt, count |-> c - 1, out |-> Append(out, b)]
             ELSE ExtractLoop(buf, nt, c - 1, Append(out, b))
    ELSE [tail |-> t, count |-> c, out |-> out]

\* the bytes the ring holds, oldest first: count slots from tail on
RingContents(buf, t, c) == [i \in 1..c |-> buf[(t + i - 1) % BUFFER_SIZE]]

\* logger_cond_signal(&buf->cond): wakes the writer thread if it waits
CondSignal(w) == IF w = "waiting" THEN "woken" ELSE w

\* -------------------------------------------------------------- log calls
\* the callers of the tests log only while no lifecycle call is running
NoLifecycleCallRunning == cpc = "idle"

\* a caller enters logger_<level>(message) (fmt = FALSE: logger_write_log and its
\* level test) or logger_<level>_f (fmt = TRUE: logger_write_log_va, its level
\* test and its vsnprintf into message[MAX_LOG_ENTRY]) with n message characters
LogCall(p, lvl, n, fmt) ==
    /\ pc[p] = "idle"
    /\ callNo[p] < MsgsPerProducer
    /\ callNo' = [callNo EXCEPT ![p] = @ + 1]
    /\ LET call == [NoCall EXCEPT !.lvl = lvl, !.fmt = fmt, !.floor = min_level,
                                  !.sess = Len(clog),
                                  !.msg = IF fmt THEN VsnprintfStored(Repeat("M", n))
                                                 ELSE Repeat("M", n)]
       IN  IF BelowFloor(lvl, min_level)
           THEN /\ hist' = [hist EXCEPT ![p] = Append(@,
                              [lvl |-> lvl, fmt |-> fmt, n |-> n, floor |-> min_level,
                               out |-> "filtered", len |-> 0, entry |-> <<>>,
                               acc |-> 0, sess |-> Len(clog)])]
                /\ UNCHANGED <<pc, cur>>
           ELSE /\ cur' = [cur EXCEPT ![p] = call]
                /\ pc' = [pc EXCEPT ![p] = IF fmt THEN "check" ELSE "strftime"]
                /\ hist' = hist
    /\ UNCHANGED <<cpp_vars, logger_vars, ring_vars, mutex, sync_mutex, logger_timestamp,
                   writer_vars, ctl_vars, os_vars, wlog>>

\* a log call made as the tests make it: while no lifecycle call is running
LogBegin(p, lvl, n, fmt) ==
    /\ NoLifecycleCallRunning
    /\ LogCall(p, lvl, n, fmt)

\* a second level test made only after the timestamp has been set
LevelCheckStampsFirst(p) ==
    /\ pc[p] = "check"
    /\ logger_timestamp' = TimestampBase
    /\ IF BelowFloor(cur[p].lvl, min_level)
       THEN Done(p, "filtered", min_level, 0, <<>>, 0)
       ELSE /\ cur' = [cur EXCEPT ![p].floor = min_level]
            /\ pc' = [pc EXCEPT ![p] = "strftime"]
            /\ hist' = hist
    /\ UNCHANGED <<cpp_vars, logger_vars, ring_vars, mutex, sync_mutex,
                   writer_vars, callNo, ctl_vars, os_vars, wlog>>

\* logger_write_log reached from logger_write_log_va: the second level test
LevelCheck(p) ==
    /\ pc[p] = "check"
    /\ IF BelowFloor(cur[p].lvl, min_level)
       THEN Done(p, "filtered", min_level, 0, <<>>, 0)
       ELSE /\ cur' = [cur EXCEPT ![p].floor = min_level]
            /\ pc' = [pc EXCEPT ![p] = "strftime"]
            /\ hist' = hist
    /\ UNCHANGED <<cpp_vars, logger_vars, ring_vars, mutex, sync_mutex, logger_timestamp,
                   writer_vars, callNo, ctl_vars, os_vars, wlog>>

\* logger_set_timestamp: strftime into the shared logger_timestamp
SetTimestampBase(p) ==
    /\ pc[p] = "strftime"
    /\ logger_timestamp' = TimestampBase
    /\ pc' = [pc EXCEPT ![p] = "usec"]
    /\ UNCHANGED <<cpp_vars, logger_vars, ring_vars, mutex, sync_mutex,
                   writer_vars, callNo, cur, ctl_vars, os_vars, wlog, hist>>

\* logger_set_timestamp: snprintf of ".%06ld" behind the base part
SetTimestampFrac(p) ==
    /\ pc[p] = "usec"
    /\ logger_timestamp' = TimestampFull
    /\ pc' = [pc EXCEPT ![p] = "format"]
    /\ UNCHANGED <<cpp_vars, logger_vars, ring_vars, mutex, sync_mutex,
                   writer_vars, callNo, cur, ctl_vars, os_vars, wlog, hist>>

\* logger_format_entry's snprintf into log_entry, the test of its length, and
\* the test of logger.async_mode
FormatEntry(p) ==
    /\ pc[p] = "format"
    /\ LET line == FormatLine(logger_timestamp, cur[p].lvl, cur[p].msg)
           len == Len(line)
           log_entry == SnprintfStored(line, MAX_LOG_ENTRY)
       IN  IF EntryRejected(len)
           THEN Done(p, "rejected", cur[p].floor, len, <<>>, 0)
           ELSE /\ cur' = [cur EXCEPT ![p].entry = EntryBytes(p, callNo[p], Take(log_entry, len)),
                                      ![p].len = len]
                /\ pc' = [pc EXCEPT ![p] = IF async_mode # 0 THEN "lock" ELSE "slock"]
                /\ hist' = hist
    /\ UNCHANGED <<cpp_vars, logger_vars, ring_vars, mutex, sync_mutex, logger_timestamp,
                   writer_vars, callNo, ctl_vars, os_vars, wlog>>

\* buffer_write: logger_mutex_lock(&buf->mutex)
BufferLock(p) ==
    /\ pc[p] = "lock"
    /\ mutex.owner = {}
    /\ mutex' = [mutex EXCEPT !.owner = {p}]
    /\ pc' = [pc EXCEPT ![p] = "copy"]
    /\ UNCHANGED <<cpp_vars, logger_vars, ring_vars, sync_mutex, logger_timestamp,
                   writer_vars, callNo, cur, ctl_vars, os_vars, wlog, hist>>

\* a buffer_write that waits under the mutex until the ring has room
BufferWriteWaitsForRoom(p) ==
    /\ pc[p] = "copy"
    /\ mutex.owner = {p}
    /\ count < BUFFER_SIZE
    /\ LET r == BufferWriteLoop(buffer, head, count, cur[p].entry, 1)
       IN  /\ buffer' = r.buffer
           /\ head' = r.head
           /\ count' = r.count
           /\ wpc' = IF r.written > 0 THEN CondSignal(wpc) ELSE wpc
           /\ Done(p, "async", cur[p].floor, cur[p].len, cur[p].entry, r.written)
    /\ mutex' = [mutex EXCEPT !.owner = {}]
    /\ UNCHANGED <<cpp_vars, logger_vars, tail, running, sync_mutex, logger_timestamp,
                   temp, callNo, ctl_vars, os_vars, wlog>>

\* buffer_write: the copy loop, the signal and the unlock
buffer_write(p) ==
    /\ pc[p] = "copy"
    /\ mutex.owner = {p}
    /\ LET r == BufferWriteLoop(buffer, head, count, cur[p].entry, 1)
       IN  /\ buffer' = r.buffer
           /\ head' = r.head
           /\ count' = r.count
           /\ wpc' = IF r.written > 0 THEN CondSignal(wpc) ELSE wpc
           /\ Done(p, "async", cur[p].floor, cur[p].len, cur[p].entry, r.written)
    /\ mutex' = [mutex EXCEPT !.owner = {}]
    /\ UNCHANGED <<cpp_vars, logger_vars, tail, running, sync_mutex, logger_timestamp,
                   temp, callNo, ctl_vars, os_vars, wlog>>

\* a lock of the sync mutex that does not wait for its owner
SyncLockNoWait(p) ==
    /\ pc[p] = "slock"
    /\ sync_mutex' = [sync_mutex EXCEPT !.owner = {p}]
    /\ pc' = [pc EXCEPT ![p] = "swrite"]
    /\ UNCHANGED <<cpp_vars, logger_vars, ring_vars, mutex, logger_timestamp,
                   writer_vars, callNo, cur, ctl_vars, os_vars, wlog, hist>>

\* logger_write_log: logger_mutex_lock(&logger.sync_mutex)
SyncLock(p) ==
    /\ pc[p] = "slock"
    /\ sync_mutex.owner = {}
    /\ sync_mutex' = [sync_mutex EXCEPT !.owner = {p}]
    /\ pc' = [pc EXCEPT ![p] = "swrite"]
    /\ UNCHANGED <<cpp_vars, logger_vars, ring_vars, mutex, logger_timestamp,
                   writer_vars, callNo, cur, ctl_vars, os_vars, wlog, hist>>

\* logger_write_log: logger_file_write(logger.file, ...) and the unlock
SyncWrite(p) ==
    /\ pc[p] = "swrite"
    /\ sync_mutex.owner = {p}
    /\ logger_file_write(p, file, cur[p].entry)
    /\ sync_mutex' = [sync_mutex EXCEPT !.owner = {}]
    /\ Done(p, "sync", cur[p].floor, cur[p].len, cur[p].entry, cur[p].len)
    /\ UNCHANGED <<cpp_vars, logger_vars, ring_vars, mutex, logger_timestamp,
                   writer_vars, callNo, ctl_vars, fdTable>>

\* ---------------------------------------------------------- writer thread
\* while (logger.circ_buf.running)
WriterLoop ==
    /\ wpc = "loop"
    /\ wpc' = IF running # 0 THEN "lock" ELSE "exit"
    /\ UNCHANGED <<cpp_vars, logger_vars, ring_vars, mutex, sync_mutex, logger_timestamp,
                   temp, prod_vars, ctl_vars, os_vars, wlog, hist>>

\* logger_mutex_lock(&logger.circ_buf.mutex), also on the way out of cond_wait
WriterLock ==
    /\ wpc \in {"lock", "woken"}
    /\ mutex.owner = {}
    /\ mutex' = [mutex EXCEPT !.owner = {Writer}]
    /\ wpc' = "check"
    /\ UNCHANGED <<cpp_vars, logger_vars, ring_vars, sync_mutex, logger_timestamp,
                   temp, prod_vars, ctl_vars, os_vars, wlog, hist>>

\* a writer that keeps the mutex while it writes the bytes it took out
WriterCheckKeepsMutex ==
    /\ wpc = "check"
    /\ mutex.owner = {Writer}
    /\ IF count = 0 /\ running # 0
       THEN /\ wpc' = "waiting"
            /\ mutex' = [mutex EXCEPT !.owner = {}]
            /\ UNCHANGED <<tail, count, temp>>
       ELSE IF running = 0
       THEN /\ wpc' = "exit"
            /\ mutex' = [mutex EXCEPT !.owner = {}]
            /\ UNCHANGED <<tail, count, temp>>
       ELSE LET r == ExtractLoop(buffer, tail, count, <<>>)
            IN  /\ tail' = r.tail
                /\ count' = r.count
                /\ temp' = r.out
                /\ wpc' = "write"
                /\ mutex' = mutex
    /\ UNCHANGED <<cpp_vars, logger_vars, buffer, head, running, sync_mutex, logger_timestamp,
                   prod_vars, ctl_vars, os_vars, wlog, hist>>

\* a writer that takes bytes out of the ring only once it holds a whole line
WriterCheckWaitsForLine ==
    /\ wpc = "check"
    /\ mutex.owner = {Writer}
    /\ mutex' = [mutex EXCEPT !.owner = {}]
    /\ IF running # 0 /\ \A i \in 1..count : ~ IsNewline(RingContents(buffer, tail, count)[i])
       THEN /\ wpc' = "waiting"
            /\ UNCHANGED <<tail, count, temp>>
       ELSE IF running = 0
       THEN /\ wpc' = "exit"
            /\ UNCHANGED <<tail, count, temp>>
       ELSE LET r == ExtractLoop(buffer, tail, count, <<>>)
            IN  /\ tail' = r.tail
                /\ count' = r.count
                /\ temp' = r.out
                /\ wpc' = "write"
    /\ UNCHANGED <<cpp_vars, logger_vars, buffer, head, running, sync_mutex, logger_timestamp,
                   prod_vars, ctl_vars, os_vars, wlog, hist>>

\* under the mutex: the wait loop, the test of running, the extraction, the unlock
WriterCheck ==
    /\ wpc = "check"
    /\ mutex.owner = {Writer}
    /\ mutex' = [mutex EXCEPT !.owner = {}]
    /\ IF count = 0 /\ running # 0
       THEN /\ wpc' = "waiting"
            /\ UNCHANGED <<tail, count, temp>>
       ELSE IF running = 0
       THEN /\ wpc' = "exit"
            /\ UNCHANGED <<tail, count, temp>>
       ELSE LET r == ExtractLoop(buffer, tail, count, <<>>)
            IN  /\ tail' = r.tail
                /\ count' = r.count
                /\ temp' = r.out
                /\ wpc' = "write"
    /\ UNCHANGED <<cpp_vars, logger_vars, buffer, head, running, sync_mutex, logger_timestamp,
                   prod_vars, ctl_vars, os_vars, wlog, hist>>

\* if (bytes_to_write > 0) logger_file_write(logger.file, temp_buffer, bytes_to_write)
WriterWrite ==
    /\ wpc = "write"
    /\ IF Len(temp) > 0
       THEN logger_file_write(Writer, file, temp)
       ELSE UNCHANGED <<wlog, fileData>>
    /\ temp' = <<>>
    /\ wpc' = "loop"
    /\ UNCHANGED <<cpp_vars, logger_vars, ring_vars, mutex, sync_mutex, logger_timestamp,
                   prod_vars, ctl_vars, fdTable, hist>>

\* --------------------------------------------------------- lifecycle calls
NoArg == [op |-> "none", filename |-> NULL, lvl |-> 0, async |-> 0]

\* the callers of the tests start and stop the logger while no log call runs
NoLogCallRunning == \A p \in Producers : pc[p] = "idle"

\* a logger_set_min_level that only ever raises the floor
SetMinLevelRaiseOnly(level) ==
    /\ cpc = "idle"
    /\ ncalls < MaxCtlCalls
    /\ ncalls' = ncalls + 1
    /\ min_level' = IF level > min_level THEN level ELSE min_level
    /\ UNCHANGED <<cpp_vars, logger_initialized, file, async_mode, ring_vars, mutex, sync_mutex,
                   logger_timestamp, writer_vars, prod_vars, cpc, carg, clog, os_vars, wlog, hist>>

\* logger_set_min_level(level)
logger_set_min_level(level) ==
    /\ cpc = "idle"
    /\ ncalls < MaxCtlCalls
    /\ ncalls' = ncalls + 1
    /\ min_level' = level
    /\ UNCHANGED <<cpp_vars, logger_initialized, file, async_mode, ring_vars, mutex, sync_mutex,
                   logger_timestamp, writer_vars, prod_vars, cpc, carg, clog, os_vars, wlog, hist>>

\* a caller enters logger_init(filename, min_level, async_mode), logger_deinit()
\* or logger_reset()
CtlCallWithin(max, op, filename, lvl, a) ==
    /\ cpc = "idle"
    /\ ncalls < max
    /\ ncalls' = ncalls + 1
    /\ carg' = [op |-> op, filename |-> filename, lvl |-> lvl, async |-> a]
    /\ clog' = Append(clog, [op |-> op, filename |-> filename, lvl |-> lvl, async |-> a,
                             wasAsync |-> async_mode, oldFd |-> file,
                             oldName |-> FdTarget(file),
                             pend |-> IF async_mode # 0 /\ (op # "init" \/ a = 0)
                                      THEN RingContents(buffer, tail, count)
                                      ELSE <<>>])
    /\ cpc' = CASE op = "init" -> "i_defaults"
                [] op = "deinit" -> "d_begin"
                [] OTHER -> "r_begin"
    /\ UNCHANGED <<cpp_vars, logger_vars, ring_vars, mutex, sync_mutex, logger_timestamp,
                   writer_vars, prod_vars, os_vars, wlog, hist>>

\* the lifecycle calls of one run: at most MaxCtlCalls of them
CtlCall(op, filename, lvl, a) == CtlCallWithin(MaxCtlCalls, op, filename, lvl, a)

\* a lifecycle call made as the tests make it: while no log call is running
CtlBegin(op, filename, lvl, a) ==
    /\ NoLogCallRunning
    /\ CtlCall(op, filename, lvl, a)

ZeroBuffer == [i \in 0..(BUFFER_SIZE - 1) |-> ZeroByte]

\* logger_init: logger_init_defaults(), then the test for an async-to-sync switch
logger_init_defaults ==
    /\ cpc = "i_defaults"
    /\ IF logger_initialized # 0
       THEN UNCHANGED <<logger_vars, ring_vars, mutex, sync_mutex>>
       ELSE /\ buffer' = ZeroBuffer
            /\ head' = 0 /\ tail' = 0 /\ count' = 0 /\ running' = 0
            /\ mutex' = ZeroMutex
            /\ file' = LOGGER_STDERR
            /\ min_level' = LOG_DEBUG
            /\ async_mode' = 0
            /\ sync_mutex' = FreshMutex
            /\ logger_initialized' = 1
    /\ cpc' = IF async_mode' # 0 /\ carg.async = 0 THEN "s_lock" ELSE "i_close"
    /\ UNCHANGED <<cpp_vars, logger_timestamp, writer_vars, prod_vars, carg, ncalls, clog,
                   os_vars, wlog, hist>>

\* logger_shutdown_async: logger_mutex_lock(&logger.circ_buf.mutex)
\* a shutdown that clears running without waiting for the ring to drain
ShutdownCheckNoDrain ==
    /\ cpc = "s_check"
    /\ mutex.owner = {Ctl}
    /\ mutex' = [mutex EXCEPT !.owner = {}]
    /\ running' = 0
    /\ wpc' = CondSignal(wpc)
    /\ cpc' = "s_join"
    /\ UNCHANGED <<cpp_vars, logger_vars, buffer, head, tail, count, sync_mutex, logger_timestamp,
                   temp, prod_vars, carg, ncalls, clog, os_vars, wlog, hist>>

\* a shutdown that does not join the writer thread
ShutdownJoinNoWait ==
    /\ cpc = "s_join"
    /\ cpc' = "s_destroy"
    /\ UNCHANGED <<cpp_vars, logger_vars, ring_vars, mutex, sync_mutex, logger_timestamp,
                   writer_vars, prod_vars, carg, ncalls, clog, os_vars, wlog, hist>>

ShutdownLock ==
    /\ cpc = "s_lock"
    /\ mutex.owner = {}
    /\ mutex' = [mutex EXCEPT !.owner = {Ctl}]
    /\ cpc' = "s_check"
    /\ UNCHANGED <<cpp_vars, logger_vars, ring_vars, sync_mutex, logger_timestamp,
                   writer_vars, prod_vars, carg, ncalls, clog, os_vars, wlog, hist>>

\* logger_shutdown_async, under the mutex: while (count > 0) { unlock; sleep; lock }
\* and, once count is 0: running = 0; signal; unlock
ShutdownCheck ==
    /\ cpc = "s_check"
    /\ mutex.owner = {Ctl}
    /\ mutex' = [mutex EXCEPT !.owner = {}]
    /\ IF count > 0
       THEN /\ cpc' = "s_sleep"
            /\ UNCHANGED <<running, wpc>>
       ELSE /\ running' = 0
            /\ wpc' = CondSignal(wpc)
            /\ cpc' = "s_join"
    /\ UNCHANGED <<cpp_vars, logger_vars, buffer, head, tail, count, sync_mutex, logger_timestamp,
                   temp, prod_vars, carg, ncalls, clog, os_vars, wlog, hist>>

\* usleep(LOGGER_SLEEP_US_POSIX)
ShutdownSleep ==
    /\ cpc = "s_sleep"
    /\ cpc' = "s_lock"
    /\ UNCHANGED <<cpp_vars, logger_vars, ring_vars, mutex, sync_mutex, logger_timestamp,
                   writer_vars, prod_vars, carg, ncalls, clog, os_vars, wlog, hist>>

\* logger_thread_join(logger.writer_thread)
ShutdownJoin ==
    /\ cpc = "s_join"
    /\ wpc = "exit"
    /\ wpc' = "none"
    /\ cpc' = "s_destroy"
    /\ UNCHANGED <<cpp_vars, logger_vars, ring_vars, mutex, sync_mutex, logger_timestamp,
                   temp, prod_vars, carg, ncalls, clog, os_vars, wlog, hist>>

\* logger_mutex_destroy, logger_cond_destroy; back in logger_init or logger_deinit.
\* pthread_mutex_destroy of a mutex a thread holds fails (EBUSY) and leaves it.
ShutdownDestroy ==
    /\ cpc = "s_destroy"
    /\ mutex' = [mutex EXCEPT !.valid = (mutex.owner # {})]
    /\ cpc' = IF carg.op = "init" THEN "i_close" ELSE "d_close"
    /\ UNCHANGED <<cpp_vars, logger_vars, ring_vars, sync_mutex, logger_timestamp,
                   writer_vars, prod_vars, carg, ncalls, clog, os_vars, wlog, hist>>

\* close(fd)
CloseFd(fd) ==
    fdTable' = IF FdIsOpen(fd) THEN [fdTable EXCEPT ![fd] = CLOSED] ELSE fdTable

\* logger_setup_file: if (logger.file != _LOGGER_STDERR) logger_file_close(logger.file)
SetupFileClose ==
    /\ cpc = "i_close"
    /\ IF file # LOGGER_STDERR THEN CloseFd(file) ELSE UNCHANGED fdTable
    /\ cpc' = "i_open"
    /\ UNCHANGED <<cpp_vars, logger_vars, ring_vars, mutex, sync_mutex, logger_timestamp,
                   writer_vars, prod_vars, carg, ncalls, clog, fileData, wlog, hist>>

\* logger_setup_file: the NULL case, or logger.file = logger_file_open(filename)
SetupFileOpen ==
    /\ cpc = "i_open"
    /\ IF carg.filename = NULL
       THEN /\ file' = LOGGER_STDERR
            /\ cpc' = "i_level"
            /\ UNCHANGED os_vars
       ELSE LET fd == logger_file_open(carg.filename)
            IN  /\ file' = fd
                /\ IF fd = -1
                   THEN /\ cpc' = "i_fail"
                        /\ UNCHANGED os_vars
                   ELSE /\ cpc' = "i_level"
                        /\ fdTable' = [fdTable EXCEPT ![fd] = carg.filename]
                        /\ fileData' = [fileData EXCEPT ![carg.filename] = <<>>]
    /\ UNCHANGED <<cpp_vars, logger_initialized, min_level, async_mode, ring_vars, mutex, sync_mutex,
                   logger_timestamp, writer_vars, prod_vars, carg, ncalls, clog, wlog, hist>>

\* an open failure that makes logger_init give up, its level and mode unapplied
SetupFileFailAborts ==
    /\ cpc = "i_fail"
    /\ file' = LOGGER_STDERR
    /\ cpc' = "idle"
    /\ carg' = NoArg
    /\ UNCHANGED <<cpp_vars, logger_initialized, min_level, async_mode, ring_vars, mutex, sync_mutex,
                   logger_timestamp, writer_vars, prod_vars, ncalls, clog, os_vars, wlog, hist>>

\* logger_setup_file: perror(...); logger.file = _LOGGER_STDERR
SetupFileFail ==
    /\ cpc = "i_fail"
    /\ file' = LOGGER_STDERR
    /\ cpc' = "i_level"
    /\ UNCHANGED <<cpp_vars, logger_initialized, min_level, async_mode, ring_vars, mutex, sync_mutex,
                   logger_timestamp, writer_vars, prod_vars, carg, ncalls, clog, os_vars, wlog, hist>>

\* logger_init: logger.min_level = min_level
InitLevel ==
    /\ cpc = "i_level"
    /\ min_level' = carg.lvl
    /\ cpc' = "i_async"
    /\ UNCHANGED <<cpp_vars, logger_initialized, file, async_mode, ring_vars, mutex, sync_mutex,
                   logger_timestamp, writer_vars, prod_vars, carg, ncalls, clog, os_vars, wlog, hist>>

\* a logger_init that starts a writer thread whenever it is asked for
\* asynchronous mode, whatever the mode it finds
InitAsyncAlways ==
    /\ cpc = "i_async"
    /\ IF carg.async # 0
       THEN /\ head' = 0 /\ tail' = 0 /\ count' = 0 /\ running' = 1
            /\ mutex' = FreshMutex
            /\ wpc' = "loop"
       ELSE UNCHANGED <<head, tail, count, running, mutex, wpc>>
    /\ cpc' = "i_mode"
    /\ UNCHANGED <<cpp_vars, logger_vars, buffer, sync_mutex, logger_timestamp,
                   temp, prod_vars, carg, ncalls, clog, os_vars, wlog, hist>>

\* a logger_init_async that clears count and sets running but keeps the
\* indices of the earlier session
InitAsyncKeepsIndices ==
    /\ cpc = "i_async"
    /\ IF carg.async # 0 /\ async_mode = 0
       THEN /\ count' = 0 /\ running' = 1
            /\ UNCHANGED <<head, tail>>
            /\ mutex' = FreshMutex
            /\ wpc' = "loop"
       ELSE UNCHANGED <<head, tail, count, running, mutex, wpc>>
    /\ cpc' = "i_mode"
    /\ UNCHANGED <<cpp_vars, logger_vars, buffer, sync_mutex, logger_timestamp,
                   temp, prod_vars, carg, ncalls, clog, os_vars, wlog, hist>>

\* logger_init: if (async_mode && !logger.async_mode) logger_init_async()
logger_init_async ==
    /\ cpc = "i_async"
    /\ IF carg.async # 0 /\ async_mode = 0
       THEN /\ head' = 0 /\ tail' = 0 /\ count' = 0 /\ running' = 1
            /\ mutex' = FreshMutex
            /\ wpc' = "loop"
       ELSE UNCHANGED <<head, tail, count, running, mutex, wpc>>
    /\ cpc' = "i_mode"
    /\ UNCHANGED <<cpp_vars, logger_vars, buffer, sync_mutex, logger_timestamp,
                   temp, prod_vars, carg, ncalls, clog, os_vars, wlog, hist>>

\* logger_init: logger.async_mode = async_mode
InitMode ==
    /\ cpc = "i_mode"
    /\ async_mode' = carg.async
    /\ cpc' = "idle"
    /\ UNCHANGED <<cpp_vars, logger_initialized, file, min_level, ring_vars, mutex, sync_mutex,
                   logger_timestamp, writer_vars, prod_vars, carg, ncalls, clog, os_vars, wlog, hist>>

\* a logger_deinit that shuts the writer down whatever the mode is
DeinitAlwaysShutsDown ==
    /\ cpc = "d_begin"
    /\ cpc' = "s_lock"
    /\ UNCHANGED <<cpp_vars, logger_vars, ring_vars, mutex, sync_mutex, logger_timestamp,
                   writer_vars, prod_vars, carg, ncalls, clog, os_vars, wlog, hist>>

\* logger_deinit: if (logger.async_mode) logger_shutdown_async()
DeinitBegin ==
    /\ cpc = "d_begin"
    /\ cpc' = IF async_mode # 0 THEN "s_lock" ELSE "d_close"
    /\ UNCHANGED <<cpp_vars, logger_vars, ring_vars, mutex, sync_mutex, logger_timestamp,
                   writer_vars, prod_vars, carg, ncalls, clog, os_vars, wlog, hist>>

\* a logger_deinit that closes the file and keeps its descriptor in logger.file
DeinitCloseKeepsFd ==
    /\ cpc = "d_close"
    /\ IF file > LOGGER_STDERR
       THEN CloseFd(file)
       ELSE UNCHANGED fdTable
    /\ cpc' = "d_mode"
    /\ UNCHANGED <<cpp_vars, logger_vars, ring_vars, mutex, sync_mutex,
                   logger_timestamp, writer_vars, prod_vars, carg, ncalls, clog, fileData, wlog, hist>>

\* logger_deinit: if (logger.file > _LOGGER_STDERR) { close; logger.file = STDERR }
DeinitClose ==
    /\ cpc = "d_close"
    /\ IF file > LOGGER_STDERR
       THEN /\ CloseFd(file)
            /\ file' = LOGGER_STDERR
       ELSE UNCHANGED <<fdTable, file>>
    /\ cpc' = "d_mode"
    /\ UNCHANGED <<cpp_vars, logger_initialized, min_level, async_mode, ring_vars, mutex, sync_mutex,
                   logger_timestamp, writer_vars, prod_vars, carg, ncalls, clog, fileData, wlog, hist>>

\* logger_deinit: logger.async_mode = 0
DeinitMode ==
    /\ cpc = "d_mode"
    /\ async_mode' = 0
    /\ cpc' = IF carg.op = "reset" THEN "r_finish" ELSE "idle"
    /\ UNCHANGED <<cpp_vars, logger_initialized, file, min_level, ring_vars, mutex, sync_mutex,
                   logger_timestamp, writer_vars, prod_vars, carg, ncalls, clog, os_vars, wlog, hist>>

\* logger_reset: if (logger_initialized) { logger_deinit(); ...
ResetBegin ==
    /\ cpc = "r_begin"
    /\ cpc' = IF logger_initialized # 0 THEN "d_begin" ELSE "idle"
    /\ UNCHANGED <<cpp_vars, logger_vars, ring_vars, mutex, sync_mutex, logger_timestamp,
                   writer_vars, prod_vars, carg, ncalls, clog, os_vars, wlog, hist>>

\* logger_reset: destroy sync_mutex; logger_initialized = 0; memset(&logger, 0, ...)
ResetFinish ==
    /\ cpc = "r_finish"
    /\ logger_initialized' = 0
    /\ file' = 0 /\ min_level' = 0 /\ async_mode' = 0
    /\ buffer' = ZeroBuffer
    /\ head' = 0 /\ tail' = 0 /\ count' = 0 /\ running' = 0
    /\ mutex' = ZeroMutex
    /\ sync_mutex' = ZeroMutex
    /\ cpc' = "idle"
    /\ UNCHANGED <<cpp_vars, logger_timestamp, writer_vars, prod_vars, carg, ncalls, clog, os_vars, wlog, hist>>

\* ---------------------------------------------------------- specification
\* ---------------------------------------------- C++ library: initial state
Threads == 1..NumThreads
Loggers == 1..MaxLoggers
\* the thread that calls LoggerManager::initialize and ::shutdown
Mgr == NumThreads + 1
\* the worker thread of Logger l
Worker(l) == NumThreads + 1 + l
\* std::unique_ptr<Logger> logger holding nothing
nullptr == 0
\* what get() gives when it throws std::runtime_error: no Logger at all
runtime_error == -1

NoLogCall == [k |-> 0, lvl |-> 0, at |-> 0, log_message |-> <<>>]
NoMgrArg == [op |-> "none", filename |-> NULL, lvl |-> 0, async |-> FALSE]

\* static LoggerInstance instance: logger empty, initialized = false; no Logger
\* object exists
CppInitNoCall ==
    /\ inst_logger = nullptr /\ inst_initialized = FALSE /\ inst_mutex = {}
    /\ nloggers = 0
    /\ log_file_ = [l \in Loggers |-> [name |-> NULL, open |-> FALSE]]
    /\ mutex_ = [l \in Loggers |-> {}]
    /\ min_level_ = [l \in Loggers |-> 0]
    /\ async_mode_ = [l \in Loggers |-> FALSE]
    /\ log_queue_ = [l \in Loggers |-> <<>>]
    /\ stop_thread_ = [l \in Loggers |-> FALSE]
    /\ queue_mutex_ = [l \in Loggers |-> {}]
    /\ worker_thread_ = [l \in Loggers |-> "none"]
    /\ log_message = [l \in Loggers |-> <<>>]
    /\ tpc = [t \in Threads |-> "idle"]
    /\ tlog = [t \in Threads |-> nullptr]
    /\ tcalls = [t \in Threads |-> 0]
    /\ thist = [t \in Threads |-> <<>>]
    /\ mpc = "idle" /\ marg = NoMgrArg /\ mret = "idle" /\ mold = nullptr
    /\ mcalls = 0 /\ mlog = <<>>
    /\ pushed = [l \in Loggers |-> <<>>]

\* the same, and no thread inside a log call
CppInit ==
    /\ CppInitNoCall
    /\ tcur = [t \in Threads |-> NoLogCall]

\* static Logger logger and static int logger_initialized = 0: all zero, no
\* writer thread, no call running, the three standard descriptors open
C99Init ==
    /\ logger_initialized = 0
    /\ file = 0 /\ min_level = 0 /\ async_mode = 0
    /\ buffer = ZeroBuffer
    /\ head = 0 /\ tail = 0 /\ count = 0 /\ running = 0
    /\ mutex = ZeroMutex
    /\ sync_mutex = ZeroMutex
    /\ logger_timestamp = <<>>
    /\ wpc = "none" /\ temp = <<>>
    /\ pc = [p \in Producers |-> "idle"]
    /\ callNo = [p \in Producers |-> 0]
    /\ cur = [p \in Producers |-> NoCall]
    /\ cpc = "idle" /\ carg = NoArg /\ ncalls = 0 /\ clog = <<>>
    /\ fdTable = [fd \in 0..MaxFd |->
                    IF fd = 0 THEN "stdin" ELSE IF fd = 1 THEN "stdout"
                    ELSE IF fd = LOGGER_STDERR THEN "stderr" ELSE CLOSED]
    /\ fileData = [f \in FileNames |-> <<>>]
    /\ wlog = <<>>
    /\ hist = [p \in Producers |-> <<>>]

\* both libraries before their first call
Init ==
    /\ CppInit
    /\ C99Init

\* the steps of a log call after its entry
ProducerStep(p) ==
    \/ SetTimestampBase(p) \/ SetTimestampFrac(p) \/ FormatEntry(p)
    \/ BufferLock(p) \/ buffer_write(p)
    \/ SyncLock(p) \/ SyncWrite(p)

WriterStep == WriterLoop \/ WriterLock \/ WriterCheck \/ WriterWrite

ShutdownStep ==
    ShutdownLock \/ ShutdownCheck \/ ShutdownSleep \/ ShutdownJoin \/ ShutdownDestroy

InitStep ==
    \/ logger_init_defaults
    \/ SetupFileClose \/ SetupFileOpen
    \/ InitLevel \/ logger_init_async \/ InitMode

DeinitStep == DeinitBegin \/ DeinitClose \/ DeinitMode

\* Spec: the threads of the tests log plain INFO messages while another thread
\* starts, switches and stops the logger on file "A"
Next ==
    \/ \E p \in Producers : LogBegin(p, LOG_INFO, 0, FALSE)
    \/ \E p \in Producers : ProducerStep(p)
    \/ WriterStep
    \/ \E a \in {0, 1} : CtlBegin("init", "A", LOG_DEBUG, a)
    \/ CtlBegin("deinit", NULL, 0, 0)
    \/ InitStep \/ ShutdownStep \/ DeinitStep

Spec == Init /\ [][Next]_vars

\* ------------------------------------------------- what the claims speak of
RECURSIVE DataOf(_)
\* the bytes of the write events of log, in the order written
DataOf(log) ==
    IF log = <<>> THEN <<>> ELSE log[1].data \o DataOf(Tail(log))

AllWritten == DataOf(wlog)

\* every byte a log call handed over: written, in temp_buffer, or in the ring
Pipeline == AllWritten \o temp \o RingContents(buffer, tail, count)

Occurrences(seq, b) == Cardinality({i \in 1..Len(seq) : seq[i] = b})

\* sub occurs in seq as one contiguous run
IsInfix(sub, seq) ==
    \E off \in 0..(Len(seq) - Len(sub)) : \A i \in 1..Len(sub) : seq[off + i] = sub[i]

\* the lines of a file: its bytes split behind each newline (the last piece may
\* lack one)
RECURSIVE LineSplit(_, _)
LineSplit(seq, line) ==
    IF seq = <<>> THEN (IF line = <<>> THEN <<>> ELSE <<line>>)
    ELSE IF IsNewline(seq[1]) THEN <<Append(line, seq[1])>> \o LineSplit(Tail(seq), <<>>)
    ELSE LineSplit(Tail(seq), Append(line, seq[1]))

Lines(seq) == LineSplit(seq, <<>>)

Calls == {<<p, k>> : p \in Producers, k \in 1..MsgsPerProducer}
Completed(c) == c[2] <= Len(hist[c[1]])
Rec(c) == hist[c[1]][c[2]]

\* a line is the whole entry of one log call
IsCompleteEntry(line) ==
    \E c \in Calls : Completed(c) /\ Rec(c).entry # <<>> /\ line = Rec(c).entry

\* the last lifecycle call was a logger_deinit that found the logger asynchronous,
\* it has returned, and the call before it was the logger_init that started the
\* asynchronous session
LastCall == clog[Len(clog)]
AsyncSessionEnded ==
    /\ cpc = "idle"
    /\ Len(clog) >= 2
    /\ LastCall.op = "deinit" /\ LastCall.wasAsync # 0
    /\ clog[Len(clog) - 1].op = "init"
    /\ clog[Len(clog) - 1].async # 0 /\ clog[Len(clog) - 1].wasAsync = 0
    /\ clog[Len(clog) - 1].filename \in FileNames

SessionNo == Len(clog) - 1
SessionFile == fileData[clog[SessionNo].filename]
InSession(c) == Completed(c) /\ Rec(c).sess = SessionNo /\ Rec(c).out = "async"

\* every thread made all its calls inside the asynchronous session
AllLoggedInSession ==
    \A c \in Calls : InSession(c)

\* C2: when logger_deinit returns from an asynchronous session, every byte
\* buffer_write accepted during the session is in the session's file, each
\* entry as one contiguous run, and nothing is left in the ring or temp_buffer
C2_DrainOnDeinit ==
    AsyncSessionEnded =>
        /\ \A c \in Calls : InSession(c) =>
              /\ IsInfix(Take(Rec(c).entry, Rec(c).acc), SessionFile)
              /\ \A i \in 1..Rec(c).acc : Occurrences(SessionFile, Rec(c).entry[i]) = 1
        /\ \A i \in 1..Len(SessionFile) :
              \E c \in Calls : InSession(c) /\ SessionFile[i][1] = c[1]
                               /\ SessionFile[i][2] = c[2] /\ SessionFile[i][3] <= Rec(c).acc

\* C2 witness: logger_deinit was entered while entries were still in the ring,
\* and has returned
C2_Witness ==
    /\ AsyncSessionEnded
    /\ LastCall.pend # <<>>
    /\ \E c \in Calls : InSession(c) /\ Rec(c).acc = Len(Rec(c).entry)
                        /\ Rec(c).entry[1] \in {LastCall.pend[i] : i \in 1..Len(LastCall.pend)}

\* C1 as stated: after an asynchronous session in which every thread made all
\* its calls, the file holds exactly NumProducers * MsgsPerProducer lines, each
\* the whole entry of one call
C1_AllLinesWhole ==
    /\ Len(Lines(SessionFile)) = NumProducers * MsgsPerProducer
    /\ \A i \in 1..Len(Lines(SessionFile)) : IsCompleteEntry(Lines(SessionFile)[i])
    /\ \A c \in Calls :
          Cardinality({i \in 1..Len(Lines(SessionFile)) :
                          Lines(SessionFile)[i] = Rec(c).entry}) = 1

\* C1 as stated, for every asynchronous session the tests' callers can run
C1_Original ==
    (AsyncSessionEnded /\ AllLoggedInSession) => C1_AllLinesWhole

EveryEntryAcceptedWhole ==
    \A c \in Calls : Completed(c) /\ Rec(c).acc = Len(Rec(c).entry)

\* C1: after an asynchronous session in which every thread made all its calls
\* and buffer_write had room for every entry in full, the file holds exactly
\* NumProducers * MsgsPerProducer lines, each the whole entry of one call and
\* every call's entry on exactly one line
C1_LinesWholeWhenAccepted ==
    (AsyncSessionEnded /\ AllLoggedInSession /\ EveryEntryAcceptedWhole)
        => C1_AllLinesWhole

\* C1 witness: such a session has ended, with the lines of the two threads
\* alternating in the file
C1_Witness ==
    /\ AsyncSessionEnded /\ AllLoggedInSession /\ EveryEntryAcceptedWhole
    /\ \E i \in 1..(Len(Lines(SessionFile)) - 2) :
          /\ Lines(SessionFile)[i][1][1] = 1
          /\ Lines(SessionFile)[i + 1][1][1] = 2
          /\ Lines(SessionFile)[i + 2][1][1] = 1

\* a logger_init(..., 0) is running that found the logger asynchronous
SwitchToSync ==
    /\ cpc # "idle"
    /\ carg.op = "init" /\ carg.async = 0
    /\ LastCall.wasAsync # 0

WriterWroteToOldFile(e) ==
    e.by = Writer /\ e.fd = LastCall.oldFd /\ e.to = LastCall.oldName

BeforeWriterStopped ==
    cpc \in {"i_defaults", "s_lock", "s_check", "s_sleep", "s_join"}

\* C3: in a logger_init that switches from asynchronous to synchronous, once the
\* writer thread has stopped every entry that was pending at the call is in the
\* old file, written there by the writer thread, and the ring and temp_buffer
\* are empty; the old file is still open and unreplaced until then, and is
\* closed only after the writer thread is joined
C3_SwitchLosesNothing ==
    SwitchToSync =>
        /\ wpc \in {"exit", "none"} =>
              /\ IsInfix(LastCall.pend, DataOf(SelectSeq(wlog, WriterWroteToOldFile)))
              /\ cpc \in {"s_join", "s_destroy", "i_close"} =>
                    IsInfix(LastCall.pend, fileData[LastCall.oldName])
              /\ count = 0 /\ temp = <<>>
        /\ (BeforeWriterStopped \/ cpc \in {"s_destroy", "i_close"}) =>
              /\ file = LastCall.oldFd
              /\ FdTarget(file) = LastCall.oldName
        /\ ~BeforeWriterStopped => wpc = "none"

\* C3 witness: the switch is about to close the old file, and entries were
\* pending when it began
C3_Witness ==
    /\ SwitchToSync
    /\ cpc = "i_close"
    /\ Len(LastCall.pend) >= 2
    /\ wpc = "none"

\* the bytes of each thread appear in seq in the order the thread issued them
OrderedPerThread(seq) ==
    \A i, j \in 1..Len(seq) :
        (i < j /\ seq[i][1] = seq[j][1]) =>
            \/ seq[i][2] < seq[j][2]
            \/ seq[i][2] = seq[j][2] /\ seq[i][3] < seq[j][3]

\* C4: in every sink the entries of one thread appear in the order in which
\* that thread's calls were made, in synchronous and in asynchronous mode
C4_PerThreadOrder ==
    \A f \in FileNames : OrderedPerThread(fileData[f])

\* C4 witness: the writer thread has written two entries of one thread to a
\* file with an entry of the other thread between them
C4_Witness ==
    \E i, j, l \in 1..Len(fileData["A"]) :
        /\ i < j /\ j < l
        /\ fileData["A"][i][1] = 1 /\ fileData["A"][i][2] = 1
        /\ fileData["A"][j][1] = 2
        /\ fileData["A"][l][1] = 1 /\ fileData["A"][l][2] = 2
        /\ \A e \in 1..Len(wlog) : wlog[e].by = Writer

Free == BUFFER_SIZE - count

\* C7: a buffer_write step accepts exactly Min(len, BUFFER_SIZE - count) bytes,
\* the first ones of its data, behind the bytes the ring already holds, which it
\* leaves as they are; it reports that number; when it accepts none it leaves
\* buffer, head, tail and count unchanged; in every case the log call completes
C7_BufferWriteAccepts ==
    [][\A p \in Producers : buffer_write(p) =>
          LET w == Min(Len(cur[p].entry), Free)
          IN  /\ count' = count + w
              /\ head' = (head + w) % BUFFER_SIZE
              /\ tail' = tail
              /\ RingContents(buffer', tail', count')
                    = RingContents(buffer, tail, count) \o Take(cur[p].entry, w)
              /\ w = 0 => (buffer' = buffer /\ head' = head /\ count' = count)
              /\ pc'[p] = "idle"
              /\ hist'[p] = Append(hist[p], hist'[p][Len(hist'[p])])
              /\ hist'[p][Len(hist'[p])].out = "async"
              /\ hist'[p][Len(hist'[p])].acc = w
              /\ mutex'.owner = {}]_vars

\* C7 witness: buffer_write has accepted one entry whole, a proper prefix of
\* another, and nothing of a third
C7_Witness ==
    \E c, d, e \in Calls :
        /\ Completed(c) /\ Rec(c).out = "async" /\ Rec(c).acc = Rec(c).len
        /\ Completed(d) /\ Rec(d).out = "async"
        /\ 0 < Rec(d).acc /\ Rec(d).acc < Rec(d).len
        /\ Completed(e) /\ Rec(e).out = "async" /\ Rec(e).len > 0 /\ Rec(e).acc = 0

\* C8: a producer that holds the buffer mutex can always finish its buffer_write
\* at once, whatever count is and whatever the writer thread does; a producer
\* that waits for the mutex waits only for a holder whose next step releases
\* it; the writer thread holds the mutex neither while it waits nor while it
\* writes to the file
C8_ProducerNeverWaitsForWriter ==
    /\ \A p \in Producers :
          /\ pc[p] = "copy" => ENABLED buffer_write(p)
          /\ pc[p] = "lock" =>
                \/ ENABLED BufferLock(p)
                \/ \E q \in Producers : mutex.owner = {q} /\ ENABLED buffer_write(q)
                \/ mutex.owner = {Writer} /\ ENABLED WriterCheck
                \/ mutex.owner = {Ctl} /\ ENABLED ShutdownCheck
    /\ wpc # "check" => Writer \notin mutex.owner

\* C8 witness: a producer is in buffer_write with the ring full while the
\* writer thread is in the middle of a file write
C8_Witness ==
    \E p \in Producers :
        /\ pc[p] = "copy"
        /\ count = BUFFER_SIZE
        /\ wpc = "write"

Emitted(c) == Completed(c) /\ Rec(c).out \in {"sync", "async"}

\* C9 as stated: every entry a log call emits starts with the whole timestamp
\* (date and time, then the microseconds) followed by the level tag
C9_FullTimestamp ==
    \A c \in Calls : Emitted(c) =>
        /\ Len(Rec(c).entry) >= 3
        /\ Rec(c).entry[1][4] = "B"
        /\ Rec(c).entry[2][4] = "F"
        /\ Rec(c).entry[3][4] = "T"

\* ---------------------------------------------------------------- SpecLevels
\* one thread logs at every level, plain and formatted, while another thread
\* starts the logger with floor DEBUG or WARN, moves the floor to INFO, ERROR
\* or CRITICAL and stops the logger
NextLevels ==
    \/ \E p \in {1} : \E lvl \in LogLevel, fmt \in BOOLEAN : LogBegin(p, lvl, 0, fmt)
    \/ \E p \in {1} : ProducerStep(p) \/ LevelCheck(p)
    \/ WriterStep
    \/ \E lvl \in {LOG_DEBUG, LOG_WARN}, a \in {0, 1} : CtlBegin("init", "A", lvl, a)
    \/ \E lvl \in {LOG_INFO, LOG_ERROR, LOG_CRITICAL} : logger_set_min_level(lvl)
    \/ CtlBegin("deinit", NULL, 0, 0)
    \/ InitStep \/ ShutdownStep \/ DeinitStep

SpecLevels == Init /\ [][NextLevels]_vars

BytesOf(c, seq) == {i \in 1..Len(seq) : seq[i][1] = c[1] /\ seq[i][2] = c[2]}

\* the whole entry of call c is in seq, as one run, once
WholeOnce(c, seq) ==
    /\ Rec(c).entry # <<>>
    /\ IsInfix(Rec(c).entry, seq)
    /\ Cardinality(BytesOf(c, seq)) = Len(Rec(c).entry)

PipelineEmpty == count = 0 /\ temp = <<>> /\ \A p \in Producers : pc[p] = "idle"

\* C5 as stated: once everything handed over has been written, every call at
\* or above the floor has exactly one whole entry in the output and every call
\* below it has none
C5_Original ==
    PipelineEmpty =>
        \A c \in Calls : Completed(c) /\ Rec(c).out # "rejected" =>
            IF Rec(c).lvl >= Rec(c).floor
            THEN WholeOnce(c, AllWritten)
            ELSE BytesOf(c, AllWritten) = {}

\* C5: a call is filtered exactly when its level is below the floor, and then
\* leaves no byte anywhere; a call at or above the floor whose entry fits the
\* cap puts exactly one whole entry into the output in synchronous mode, and in
\* asynchronous mode exactly the bytes buffer_write accepted, once and as one
\* run: the whole entry when the ring had room for it
C5_LevelFilter ==
    \A c \in Calls : Completed(c) =>
        /\ Rec(c).out = "filtered" <=> Rec(c).lvl < Rec(c).floor
        /\ Rec(c).out = "filtered" => BytesOf(c, Pipeline) = {}
        /\ Rec(c).out = "sync" => WholeOnce(c, AllWritten)
        /\ Rec(c).out = "async" =>
              /\ IsInfix(Take(Rec(c).entry, Rec(c).acc), Pipeline)
              /\ Cardinality(BytesOf(c, Pipeline)) = Rec(c).acc
              /\ Rec(c).acc = Rec(c).len => WholeOnce(c, Pipeline)

\* C5 witness: with the floor at WARN an INFO call was filtered and a WARN call
\* put its one entry into the output
C5_Witness ==
    \E c, d \in Calls :
        /\ Completed(c) /\ Completed(d)
        /\ Rec(c).floor = LOG_WARN /\ Rec(c).lvl = LOG_INFO /\ Rec(c).out = "filtered"
        /\ Rec(d).floor = LOG_WARN /\ Rec(d).lvl = LOG_WARN /\ Rec(d).out = "async"
        /\ WholeOnce(d, AllWritten)

\* ------------------------------------------------------------------- SpecCap
\* the bytes of an entry besides its message
EntryOverhead == Len(FormatLine(TimestampFull, LOG_INFO, <<>>))

\* message lengths around the cap: empty, the longest that fits, the shortest
\* that does not, and one longer than the cap itself
MsgLens == {0, MAX_LOG_ENTRY - 1 - EntryOverhead, MAX_LOG_ENTRY - EntryOverhead,
            MAX_LOG_ENTRY + 1}

\* one thread logs messages of these lengths, plain and formatted, in
\* synchronous and asynchronous mode
NextCap ==
    \/ \E p \in {1} : \E n \in MsgLens, fmt \in BOOLEAN : LogBegin(p, LOG_INFO, n, fmt)
    \/ \E p \in {1} : ProducerStep(p) \/ LevelCheck(p)
    \/ WriterStep
    \/ \E a \in {0, 1} : CtlBegin("init", "A", LOG_DEBUG, a)
    \/ CtlBegin("deinit", NULL, 0, 0)
    \/ InitStep \/ ShutdownStep \/ DeinitStep

SpecCap == Init /\ [][NextCap]_vars

\* C10 as stated: a call whose line would not fit MAX_LOG_ENTRY bytes still
\* emits an entry, cut to the cap
C10_Original ==
    \A c \in Calls : (Completed(c) /\ Rec(c).len >= MAX_LOG_ENTRY) =>
        /\ Emitted(c)
        /\ Len(Rec(c).entry) = MAX_LOG_ENTRY - 1

\* C10: a call whose line (timestamp, level tag, message, newline) would take
\* MAX_LOG_ENTRY bytes or more with its terminator emits nothing at all and
\* returns; the formatted variant has cut the message to MAX_LOG_ENTRY - 1
\* characters before, and its entry is dropped all the same; every entry that
\* is emitted is the whole line, never a cut one
C10_OverCapDropped ==
    \A c \in Calls : Completed(c) =>
        /\ Rec(c).out = "rejected" <=> Rec(c).len >= MAX_LOG_ENTRY
        /\ Rec(c).out = "rejected" => BytesOf(c, Pipeline) = {}
        /\ Rec(c).fmt => Rec(c).n <= MAX_LOG_ENTRY - 1
        /\ Emitted(c) =>
              /\ Len(Rec(c).entry) = Rec(c).len
              /\ Rec(c).len = Rec(c).n + EntryOverhead
              /\ IsNewline(Rec(c).entry[Rec(c).len])

\* C10 witness: a plain call and a formatted call were dropped for their
\* length, the formatted one after its message was cut
C10_Witness ==
    \E c, d \in Calls :
        /\ Completed(c) /\ ~Rec(c).fmt /\ Rec(c).out = "rejected"
        /\ Rec(c).len = MAX_LOG_ENTRY
        /\ Completed(d) /\ Rec(d).fmt /\ Rec(d).out = "rejected"
        /\ Rec(d).n = MAX_LOG_ENTRY - 1

\* ------------------------------------------------------------------ SpecRace
\* a logger_mutex_lock that returns at once without the mutex
RaceLockNoWait(p) ==
    /\ pc[p] = "lock"
    /\ pc' = [pc EXCEPT ![p] = "rcopy"]
    /\ UNCHANGED <<cpp_vars, logger_vars, ring_vars, mutex, sync_mutex, logger_timestamp,
                   writer_vars, callNo, cur, ctl_vars, os_vars, wlog, hist>>

\* buffer_write one memory access at a time, for callers that run while a
\* lifecycle call runs. logger_mutex_lock: on a live mutex it waits for the
\* mutex; on a destroyed one the behaviour is undefined, and the call either
\* takes the mutex all the same or fails at once (EINVAL, which buffer_write
\* does not look at) and the caller goes on without it
RaceLock(p) ==
    /\ pc[p] = "lock"
    /\ \/ /\ mutex.owner = {}
          /\ mutex' = [mutex EXCEPT !.owner = {p}]
       \/ /\ ~mutex.valid
          /\ mutex' = mutex
    /\ pc' = [pc EXCEPT ![p] = "rcopy"]
    /\ UNCHANGED <<cpp_vars, logger_vars, ring_vars, sync_mutex, logger_timestamp,
                   writer_vars, callNo, cur, ctl_vars, os_vars, wlog, hist>>

\* i < len && buf->count < BUFFER_SIZE; buf->buffer[buf->head] = data[i];
\* buf->head = (buf->head + 1) % BUFFER_SIZE; and the load of buf->count++
RaceCopyStore(p) ==
    /\ pc[p] = "rcopy"
    /\ IF cur[p].written < cur[p].len /\ count < BUFFER_SIZE
       THEN /\ buffer' = [buffer EXCEPT ![head] = cur[p].entry[cur[p].written + 1]]
            /\ head' = (head + 1) % BUFFER_SIZE
            /\ cur' = [cur EXCEPT ![p].rd = count]
            /\ pc' = [pc EXCEPT ![p] = "rcount"]
       ELSE /\ pc' = [pc EXCEPT ![p] = "runlock"]
            /\ UNCHANGED <<buffer, head, cur>>
    /\ UNCHANGED <<cpp_vars, logger_vars, tail, count, running, mutex, sync_mutex, logger_timestamp,
                   writer_vars, callNo, ctl_vars, os_vars, wlog, hist>>

\* the store of buf->count++; written++
RaceCopyCount(p) ==
    /\ pc[p] = "rcount"
    /\ count' = cur[p].rd + 1
    /\ cur' = [cur EXCEPT ![p].written = @ + 1]
    /\ pc' = [pc EXCEPT ![p] = "rcopy"]
    /\ UNCHANGED <<cpp_vars, logger_vars, buffer, head, tail, running, mutex, sync_mutex,
                   logger_timestamp, writer_vars, callNo, ctl_vars, os_vars, wlog, hist>>

\* if (written > 0) logger_cond_signal; logger_mutex_unlock; return written
RaceUnlock(p) ==
    /\ pc[p] = "runlock"
    /\ wpc' = IF cur[p].written > 0 THEN CondSignal(wpc) ELSE wpc
    /\ mutex' = [mutex EXCEPT !.owner = @ \ {p}]
    /\ Done(p, "async", cur[p].floor, cur[p].len, cur[p].entry, cur[p].written)
    /\ UNCHANGED <<cpp_vars, logger_vars, ring_vars, sync_mutex, logger_timestamp,
                   temp, callNo, ctl_vars, os_vars, wlog>>

RaceProducerStep(p) ==
    \/ SetTimestampBase(p) \/ SetTimestampFrac(p) \/ FormatEntry(p)
    \/ RaceLock(p) \/ RaceCopyStore(p) \/ RaceCopyCount(p) \/ RaceUnlock(p)
    \/ SyncLock(p) \/ SyncWrite(p)

\* threads log while another thread starts and stops the logger, with nothing
\* keeping the log calls and the lifecycle calls apart
NextRace ==
    \/ \E p \in Producers : callNo[p] < RaceCalls /\ LogCall(p, LOG_INFO, 0, FALSE)
    \/ \E p \in Producers : RaceProducerStep(p)
    \/ WriterStep
    \/ CtlCall("init", "A", LOG_DEBUG, 1)
    \/ CtlCall("deinit", NULL, 0, 0)
    \/ InitStep \/ ShutdownStep \/ DeinitStep

SpecRace == Init /\ [][NextRace]_vars

\* C6 as stated, at every moment at which no thread is between the two halves
\* of a loop iteration of buffer_write: count, head and tail are in range and
\* head is count slots ahead of tail
C6_RingInvariant ==
    (\A p \in Producers : pc[p] # "rcount") =>
        /\ 0 <= count /\ count <= BUFFER_SIZE
        /\ 0 <= head /\ head < BUFFER_SIZE
        /\ 0 <= tail /\ tail < BUFFER_SIZE
        /\ head = (tail + count) % BUFFER_SIZE

\* an entry as logger_write_log may hand it on: at most MAX_LOG_ENTRY - 1 bytes,
\* the last one the newline of the format
WithinCap(entry) ==
    /\ 1 <= Len(entry) /\ Len(entry) <= MAX_LOG_ENTRY - 1
    /\ IsNewline(entry[Len(entry)])

\* C11: every entry a log call is about to hand to buffer_write or to
\* logger_file_write, every entry it has handed over, and every write a
\* producer made, is at most MAX_LOG_ENTRY - 1 bytes long and ends with the
\* newline of the format; a call whose line is longer leaves no byte anywhere
C11_EntryWithinCap ==
    /\ \A p \in Producers :
          pc[p] \in {"lock", "copy", "slock", "swrite"} => WithinCap(cur[p].entry)
    /\ \A c \in Calls : (Completed(c) /\ Emitted(c)) => WithinCap(Rec(c).entry)
    /\ \A c \in Calls : (Completed(c) /\ Rec(c).len >= MAX_LOG_ENTRY) =>
          BytesOf(c, Pipeline) = {}
    /\ \A e \in 1..Len(wlog) : wlog[e].by \in Producers => WithinCap(wlog[e].data)
    /\ Len(temp) <= MAX_LOG_ENTRY - 1

\* C11 witness: an entry of exactly MAX_LOG_ENTRY - 1 bytes was written by its
\* caller in synchronous mode and another was taken whole by buffer_write
C11_Witness ==
    \E c, d \in Calls :
        /\ Completed(c) /\ Rec(c).out = "sync" /\ Rec(c).len = MAX_LOG_ENTRY - 1
        /\ Completed(d) /\ Rec(d).out = "async" /\ Rec(d).len = MAX_LOG_ENTRY - 1
        /\ Rec(d).acc = Rec(d).len

\* C12 as stated: a log call made before any lifecycle call is not filtered at
\* any level (floor DEBUG) and writes its entry itself (synchronous mode), to
\* standard error
C12_LazyDefaults ==
    \A c \in Calls : (Completed(c) /\ Rec(c).sess = 0) =>
        /\ Rec(c).floor = LOG_DEBUG
        /\ Rec(c).out = "sync"
        /\ \A e \in 1..Len(wlog) :
              wlog[e].data = Rec(c).entry =>
                  (wlog[e].fd = LOGGER_STDERR /\ wlog[e].to = "stderr")

\* C13 as stated: when a logger_deinit that followed a logger_init has
\* returned, and logger_set_min_level was not called, the target is standard
\* error, the floor is DEBUG and the mode is synchronous
C13_DefaultsAfterDeinit ==
    (/\ cpc = "idle" /\ Len(clog) >= 2 /\ ncalls = Len(clog)
     /\ LastCall.op = "deinit" /\ clog[Len(clog) - 1].op = "init") =>
        /\ file = LOGGER_STDERR
        /\ min_level = LOG_DEBUG
        /\ async_mode = 0

\* -------------------------------------------------------------- SpecOpenFail
\* one thread logs ERROR messages while another starts the logger on a file
\* that opens or on one that does not, with floor DEBUG or ERROR, in either
\* mode, and stops it
NextOpenFail ==
    \/ \E p \in {1} : LogBegin(p, LOG_ERROR, 0, FALSE)
    \/ \E p \in {1} : ProducerStep(p)
    \/ WriterStep
    \/ \E f \in {"A", BAD}, lvl \in {LOG_DEBUG, LOG_ERROR}, a \in {0, 1} :
          CtlBegin("init", f, lvl, a)
    \/ CtlBegin("deinit", NULL, 0, 0)
    \/ InitStep \/ SetupFileFail \/ ShutdownStep \/ DeinitStep

SpecOpenFail == Init /\ [][NextOpenFail]_vars

\* the last lifecycle call was a logger_init on a file that cannot be opened,
\* and it has returned
InitOnBadFileReturned ==
    /\ cpc = "idle"
    /\ Len(clog) > 0
    /\ LastCall.op = "init" /\ LastCall.filename = BAD

\* C14: a logger_init whose file cannot be opened returns all the same, with
\* standard error as the target, the floor it was given and the mode it was
\* given (the writer thread running if that mode is asynchronous); the entries
\* callers write after it in synchronous mode go to standard error
C14_OpenFailureFallsBack ==
    /\ cpc = "i_fail" => ENABLED SetupFileFail
    /\ InitOnBadFileReturned =>
          /\ file = LOGGER_STDERR
          /\ min_level = LastCall.lvl
          /\ async_mode = LastCall.async
          /\ wpc # "none" <=> LastCall.async # 0
    /\ \A c \in Calls :
          (/\ Completed(c) /\ Rec(c).sess > 0 /\ Rec(c).out = "sync"
           /\ clog[Rec(c).sess].op = "init" /\ clog[Rec(c).sess].filename = BAD) =>
              \A e \in 1..Len(wlog) :
                  wlog[e].data = Rec(c).entry =>
                      (wlog[e].fd = LOGGER_STDERR /\ wlog[e].to = "stderr")

\* C14 witness: a logger_init on a file that cannot be opened has returned with
\* floor ERROR in synchronous mode, taken over from an asynchronous logger
\* with floor DEBUG on a file, and an entry logged after it was written
C14_Witness ==
    /\ InitOnBadFileReturned
    /\ Len(clog) >= 2
    /\ LastCall.lvl = LOG_ERROR /\ LastCall.async = 0 /\ LastCall.wasAsync = 1
    /\ clog[Len(clog) - 1].lvl = LOG_DEBUG /\ LastCall.oldName = "A"
    /\ \E c \in Calls : /\ Completed(c) /\ Rec(c).sess = Len(clog)
                        /\ Rec(c).out = "sync"
                        /\ IsInfix(Rec(c).entry, AllWritten)


\* ------------------------------------------------------------ C15 (SpecLevels)
\* a step of logger_set_min_level: the only call that returns at once
SetMinLevelStep == cpc = "idle" /\ cpc' = "idle" /\ ncalls' = ncalls + 1

\* thread p makes a level test in this step: the one of the call's entry, or
\* the second one in logger_write_log behind logger_write_log_va
LevelTestStep(p) ==
    \/ pc[p] = "idle" /\ callNo'[p] = callNo[p] + 1
    \/ pc[p] = "check" /\ pc'[p] # "check"

\* the level test of thread p filtered the call in this step
FilteredInStep(p) ==
    /\ Len(hist'[p]) = Len(hist[p]) + 1
    /\ hist'[p][Len(hist'[p])].out = "filtered"

\* the level the call under test was made at
LevelUnderTest(p) ==
    IF pc[p] = "check" THEN cur[p].lvl
    ELSE IF FilteredInStep(p) THEN hist'[p][Len(hist'[p])].lvl ELSE cur'[p].lvl

\* C15: logger_set_min_level(L) makes L the floor and touches nothing else: no
\* byte written, in the writer's hands or in the ring, and no record of a
\* finished call; the floor changes only there, in logger_init and in
\* logger_reset; every level
\* test a log call makes compares the call's level with the floor of that
\* moment, so with the floor set last; and the entries accepted earlier stay
\* in the output or on their way to it whatever the floor is now
C15_FloorAppliesFromNowOn ==
    /\ [](\A L \in LogLevel :
            ~ ENABLED (/\ logger_set_min_level(L)
                       /\ ~ (/\ min_level' = L
                             /\ UNCHANGED <<ring_vars, writer_vars, prod_vars,
                                            os_vars, wlog, hist>>)))
    /\ [][min_level' # min_level => (SetMinLevelStep \/ carg.op \in {"init", "reset"})]_vars
    /\ [][\A p \in Producers : LevelTestStep(p) =>
              (FilteredInStep(p) <=> LevelUnderTest(p) < min_level)]_vars
    /\ [](\A c \in Calls : Completed(c) =>
              /\ Rec(c).out = "sync" => IsInfix(Rec(c).entry, AllWritten)
              /\ Rec(c).out = "async" =>
                    IsInfix(Take(Rec(c).entry, Rec(c).acc), Pipeline))

\* C15 witness: the floor was moved to ERROR, which only logger_set_min_level
\* does here, and the WARN call made after it was filtered, while the INFO
\* entry accepted in asynchronous mode before it was written whole
C15_Witness ==
    /\ min_level = LOG_ERROR
    /\ Completed(<<1, 2>>)
    /\ Rec(<<1, 1>>).lvl = LOG_INFO /\ Rec(<<1, 1>>).out = "async"
    /\ Rec(<<1, 1>>).floor < LOG_INFO
    /\ WholeOnce(<<1, 1>>, AllWritten)
    /\ Rec(<<1, 2>>).lvl = LOG_WARN /\ Rec(<<1, 2>>).out = "filtered"
    /\ Rec(<<1, 2>>).floor = LOG_ERROR


\* ------------------------------------------------------------------ C19 (Spec)
\* the threads inside the file write of a synchronous log call
InFileWrite == {p \in Producers : pc[p] = "swrite"}

\* the last lifecycle call was a synchronous logger_init on a file, and it has
\* returned with the file open
SyncSessionOnFile ==
    /\ cpc = "idle"
    /\ Len(clog) >= 1
    /\ LastCall.op = "init" /\ LastCall.async = 0
    /\ LastCall.filename \in FileNames
    /\ FdTarget(file) = LastCall.filename

InSyncSession(c) == Completed(c) /\ Rec(c).sess = Len(clog) /\ Rec(c).out = "sync"

SyncSessionFile == fileData[LastCall.filename]

\* C19: at most one thread is inside the file write of a synchronous log call,
\* and it holds the sync mutex; during a synchronous session on a file the
\* file consists of exactly one line per call that has returned, each the
\* call's whole entry
C19_SyncWritesSerialized ==
    /\ Cardinality(InFileWrite) <= 1
    /\ \A p \in InFileWrite : sync_mutex.owner = {p}
    /\ SyncSessionOnFile =>
          /\ Len(Lines(SyncSessionFile)) = Cardinality({c \in Calls : InSyncSession(c)})
          /\ \A i \in 1..Len(Lines(SyncSessionFile)) :
                \E c \in Calls : InSyncSession(c) /\ Lines(SyncSessionFile)[i] = Rec(c).entry
          /\ \A c \in Calls : InSyncSession(c) =>
                Cardinality({i \in 1..Len(Lines(SyncSessionFile)) :
                                Lines(SyncSessionFile)[i] = Rec(c).entry}) = 1

\* C19 witness: in a synchronous session on a file one thread is inside the
\* file write while the other waits for the sync mutex, the lines of the first
\* calls of both threads being in the file already
C19_Witness ==
    /\ SyncSessionOnFile
    /\ pc[1] = "swrite" /\ pc[2] = "slock"
    /\ cur[1].sess = Len(clog) /\ cur[2].sess = Len(clog)
    /\ Len(Lines(SyncSessionFile)) = 2
    /\ InSyncSession(<<1, 1>>) /\ InSyncSession(<<2, 1>>)


\* -------------------------------------------------------------- C20 (SpecFair)
\* one thread logs plain INFO messages, the second of which the ring takes only
\* in part, while another thread starts and stops the logger; log calls and
\* lifecycle calls never overlap
NextFair ==
    \/ \E p \in {1} : LogBegin(p, LOG_INFO, 0, FALSE)
    \/ \E p \in {1} : ProducerStep(p)
    \/ WriterStep
    \/ \E a \in {0, 1} : CtlBegin("init", "A", LOG_DEBUG, a)
    \/ CtlBegin("deinit", NULL, 0, 0)
    \/ InitStep \/ ShutdownStep \/ DeinitStep

\* the writer thread and the thread inside a lifecycle call keep running; the
\* writer gets the ring's mutex when it is free again and again, as it is
\* while logger_shutdown_async sleeps between its looks at count
SpecFair ==
    /\ Init /\ [][NextFair]_vars
    /\ WF_vars(WriterLoop) /\ SF_vars(WriterLock)
    /\ WF_vars(WriterCheck) /\ WF_vars(WriterWrite)
    /\ WF_vars(ShutdownStep) /\ WF_vars(DeinitStep)

\* logger_deinit has been entered with the logger in asynchronous mode
AsyncDeinitEntered == cpc = "d_begin" /\ carg.op = "deinit" /\ async_mode # 0

\* C20: a logger_deinit entered in asynchronous mode, with no log call
\* running, returns, whatever the ring holds
C20_DeinitTerminates == AsyncDeinitEntered ~> (cpc = "idle")

\* C20 witness: a logger_deinit that found in the ring a piece of an entry
\* without its newline has returned, the piece written and the writer gone
C20_Witness ==
    /\ cpc = "idle"
    /\ Len(clog) >= 1
    /\ LastCall.op = "deinit" /\ LastCall.wasAsync # 0
    /\ LastCall.pend # <<>>
    /\ ~ IsNewline(LastCall.pend[Len(LastCall.pend)])
    /\ count = 0 /\ wpc = "none"
    /\ IsInfix(LastCall.pend, AllWritten)


\* =========================================================================
\* The C++ header: class Logger and class LoggerManager
\* =========================================================================
\* Logger::level_to_string: the tag field of the level
level_to_string(level) ==
    IF level \in LogLevel THEN "T" ELSE "U"

\* write_log: get_timestamp() + " [" + level + "] [Thread:" + id + "] " + message,
\* for the k-th call of thread t: the timestamp ("B" and its microseconds "F"),
\* the level tag, the thread tag "H" and the message "M"
FormatLogMessage(t, k, level) ==
    <<<<t, k, 1, "B">>, <<t, k, 2, "F">>, <<t, k, 3, level_to_string(level)>>,
      <<t, k, 4, "H">>, <<t, k, 5, "M">>>>

\* the '\n' std::endl puts behind message m
Endl(m) == <<m[1][1], m[1][2], Len(m) + 1, "N">>

\* log_file_ << data on the stream of Logger l: a stream that is not open
\* takes nothing
StreamInsert(l, data) ==
    fileData' = IF log_file_[l].open
                THEN [fileData EXCEPT ![log_file_[l].name] = @ \o data]
                ELSE fileData

\* cv_.notify_one() / cv_.notify_all() on the condition variable of Logger l,
\* which only the worker ever waits on
Notify(l) ==
    worker_thread_' = [worker_thread_ EXCEPT ![l] = IF @ = "waiting" THEN "woken" ELSE @]

\* ------------------------------------------------------------- log calls
\* LoggerManager::get() without its test of initialized and logger
GetUnchecked == inst_logger

\* LoggerManager::get(): the installed Logger, or the exception
get ==
    IF ~ inst_initialized \/ inst_logger = nullptr THEN runtime_error ELSE inst_logger

\* the call of thread t returns (or leaves by the exception)
TDone(t, got, out) ==
    /\ thist' = [thist EXCEPT ![t] = Append(@,
                    [k |-> tcur[t].k, lvl |-> tcur[t].lvl, at |-> tcur[t].at, got |-> got,
                     out |-> out, log_message |-> tcur[t].log_message])]
    /\ tpc' = [tpc EXCEPT ![t] = "idle"]
    /\ tcur' = [tcur EXCEPT ![t] = NoLogCall]
    /\ tlog' = [tlog EXCEPT ![t] = nullptr]

\* thread t enters SLOG_<LEVEL>(msg): MiniLogger::LoggerManager::get().<level>(msg)
SLog(t, lvl) ==
    /\ tpc[t] = "idle"
    /\ tcalls[t] < MsgsPerThread
    /\ tcalls' = [tcalls EXCEPT ![t] = @ + 1]
    /\ IF get = runtime_error
       THEN /\ thist' = [thist EXCEPT ![t] = Append(@,
                            [k |-> tcalls[t] + 1, lvl |-> lvl, at |-> Len(mlog),
                             got |-> runtime_error, out |-> "throw", log_message |-> <<>>])]
            /\ UNCHANGED <<tpc, tlog, tcur>>
       ELSE /\ tlog' = [tlog EXCEPT ![t] = get]
            /\ tcur' = [tcur EXCEPT ![t] = [k |-> tcalls[t] + 1, lvl |-> lvl,
                                            at |-> Len(mlog), log_message |-> <<>>]]
            /\ tpc' = [tpc EXCEPT ![t] = "write_log"]
            /\ thist' = thist
    /\ UNCHANGED <<c99_vars, fileData, inst_vars, obj_vars, worker_vars, mgr_vars, pushed>>

\* a log call made as the tests make it: while no initialize or shutdown runs
SLogBegin(t, lvl) ==
    /\ mpc = "idle"
    /\ SLog(t, lvl)

\* Logger::write_log: the level test and the building of log_message
WriteLogLevel(t) ==
    /\ tpc[t] = "write_log"
    /\ IF tcur[t].lvl < min_level_[tlog[t]]
       THEN TDone(t, tlog[t], "filtered")
       ELSE /\ tcur' = [tcur EXCEPT ![t].log_message =
                            FormatLogMessage(t, tcur[t].k, tcur[t].lvl)]
            /\ tpc' = [tpc EXCEPT ![t] = IF async_mode_[tlog[t]] THEN "qlock" ELSE "flock"]
            /\ UNCHANGED <<tlog, thist>>
    /\ UNCHANGED <<c99_vars, fileData, inst_vars, obj_vars, worker_vars, tcalls,
                   mgr_vars, pushed>>

\* write_log, asynchronous: std::lock_guard<std::mutex> lock(queue_mutex_)
QueueLock(t) ==
    /\ tpc[t] = "qlock"
    /\ queue_mutex_[tlog[t]] = {}
    /\ queue_mutex_' = [queue_mutex_ EXCEPT ![tlog[t]] = {t}]
    /\ tpc' = [tpc EXCEPT ![t] = "push"]
    /\ UNCHANGED <<c99_vars, fileData, inst_vars, nloggers, log_file_, mutex_, min_level_,
                   async_mode_, log_queue_, stop_thread_, worker_vars,
                   tlog, tcur, tcalls, thist, mgr_vars, pushed>>

\* write_log, asynchronous: log_queue_.push(log_message); cv_.notify_one(); unlock
QueuePush(t) ==
    /\ tpc[t] = "push"
    /\ queue_mutex_[tlog[t]] = {t}
    /\ log_queue_' = [log_queue_ EXCEPT ![tlog[t]] = Append(@, tcur[t].log_message)]
    /\ pushed' = [pushed EXCEPT ![tlog[t]] = Append(@, tcur[t].log_message)]
    /\ Notify(tlog[t])
    /\ queue_mutex_' = [queue_mutex_ EXCEPT ![tlog[t]] = {}]
    /\ TDone(t, tlog[t], "async")
    /\ UNCHANGED <<c99_vars, fileData, inst_vars, nloggers, log_file_, mutex_, min_level_,
                   async_mode_, stop_thread_, log_message, tcalls, mgr_vars>>

\* a lock of the file mutex that does not wait for its owner
FileLockNoWait(t) ==
    /\ tpc[t] = "flock"
    /\ mutex_' = [mutex_ EXCEPT ![tlog[t]] = {t}]
    /\ tpc' = [tpc EXCEPT ![t] = "insert"]
    /\ UNCHANGED <<c99_vars, fileData, inst_vars, nloggers, log_file_, min_level_,
                   async_mode_, log_queue_, stop_thread_, queue_mutex_, worker_vars,
                   tlog, tcur, tcalls, thist, mgr_vars, pushed>>

\* write_log, synchronous: std::lock_guard<std::mutex> file_lock(mutex_)
FileLock(t) ==
    /\ tpc[t] = "flock"
    /\ mutex_[tlog[t]] = {}
    /\ mutex_' = [mutex_ EXCEPT ![tlog[t]] = {t}]
    /\ tpc' = [tpc EXCEPT ![t] = "insert"]
    /\ UNCHANGED <<c99_vars, fileData, inst_vars, nloggers, log_file_, min_level_,
                   async_mode_, log_queue_, stop_thread_, queue_mutex_, worker_vars,
                   tlog, tcur, tcalls, thist, mgr_vars, pushed>>

\* write_log, synchronous: log_file_ << log_message
FileInsert(t) ==
    /\ tpc[t] = "insert"
    /\ StreamInsert(tlog[t], tcur[t].log_message)
    /\ tpc' = [tpc EXCEPT ![t] = "endl"]
    /\ UNCHANGED <<c99_vars, inst_vars, obj_vars, worker_vars,
                   tlog, tcur, tcalls, thist, mgr_vars, pushed>>

\* write_log, synchronous: << std::endl << std::flush, and the unlock
FileEndl(t) ==
    /\ tpc[t] = "endl"
    /\ StreamInsert(tlog[t], <<Endl(tcur[t].log_message)>>)
    /\ mutex_' = [mutex_ EXCEPT ![tlog[t]] = @ \ {t}]
    /\ TDone(t, tlog[t], "sync")
    /\ UNCHANGED <<c99_vars, inst_vars, nloggers, log_file_, min_level_, async_mode_,
                   log_queue_, stop_thread_, queue_mutex_, worker_vars, tcalls,
                   mgr_vars, pushed>>

ThreadStep(t) ==
    \/ WriteLogLevel(t)
    \/ QueueLock(t) \/ QueuePush(t)
    \/ FileLock(t) \/ FileInsert(t) \/ FileEndl(t)


\* ------------------------------------------------- Logger::worker_function
\* a worker that leaves as soon as stop_thread_ is set
WorkerLoopNoDrain(l) ==
    /\ worker_thread_[l] = "loop"
    /\ worker_thread_' = [worker_thread_ EXCEPT ![l] =
                             IF ~ stop_thread_[l] THEN "lock" ELSE "exit"]
    /\ UNCHANGED <<c99_vars, fileData, inst_vars, obj_vars, log_message, thr_vars,
                   mgr_vars, pushed>>

\* while (!stop_thread_ || !log_queue_.empty())
WorkerLoop(l) ==
    /\ worker_thread_[l] = "loop"
    /\ worker_thread_' = [worker_thread_ EXCEPT ![l] =
                             IF ~ stop_thread_[l] \/ log_queue_[l] # <<>>
                             THEN "lock" ELSE "exit"]
    /\ UNCHANGED <<c99_vars, fileData, inst_vars, obj_vars, log_message, thr_vars,
                   mgr_vars, pushed>>

\* std::unique_lock<std::mutex> lock(queue_mutex_), and the lock taken again
\* on the way out of the wait
WorkerLock(l) ==
    /\ worker_thread_[l] \in {"lock", "woken"}
    /\ queue_mutex_[l] = {}
    /\ queue_mutex_' = [queue_mutex_ EXCEPT ![l] = {Worker(l)}]
    /\ worker_thread_' = [worker_thread_ EXCEPT ![l] = "pred"]
    /\ UNCHANGED <<c99_vars, fileData, inst_vars, nloggers, log_file_, mutex_, min_level_,
                   async_mode_, log_queue_, stop_thread_, log_message, thr_vars,
                   mgr_vars, pushed>>

\* cv_.wait(lock, pred): the test of !log_queue_.empty() || stop_thread_
WorkerPred(l) ==
    /\ worker_thread_[l] = "pred"
    /\ worker_thread_' = [worker_thread_ EXCEPT ![l] =
                             IF log_queue_[l] # <<>> \/ stop_thread_[l]
                             THEN "pop" ELSE "block"]
    /\ UNCHANGED <<c99_vars, fileData, inst_vars, obj_vars, log_message, thr_vars,
                   mgr_vars, pushed>>

\* cv_.wait(lock, pred): the wait, which releases the lock and blocks at once
WorkerBlock(l) ==
    /\ worker_thread_[l] = "block"
    /\ queue_mutex_' = [queue_mutex_ EXCEPT ![l] = {}]
    /\ worker_thread_' = [worker_thread_ EXCEPT ![l] = "waiting"]
    /\ UNCHANGED <<c99_vars, fileData, inst_vars, nloggers, log_file_, mutex_, min_level_,
                   async_mode_, log_queue_, stop_thread_, log_message, thr_vars,
                   mgr_vars, pushed>>

\* while (!log_queue_.empty()) { log_message = front(); pop(); lock.unlock(); ...
\* and, with the queue empty, the end of the block, where lock is released
WorkerPop(l) ==
    /\ worker_thread_[l] = "pop"
    /\ queue_mutex_' = [queue_mutex_ EXCEPT ![l] = {}]
    /\ IF log_queue_[l] # <<>>
       THEN /\ log_message' = [log_message EXCEPT ![l] = Head(log_queue_[l])]
            /\ log_queue_' = [log_queue_ EXCEPT ![l] = Tail(@)]
            /\ worker_thread_' = [worker_thread_ EXCEPT ![l] = "flock"]
       ELSE /\ worker_thread_' = [worker_thread_ EXCEPT ![l] = "loop"]
            /\ UNCHANGED <<log_message, log_queue_>>
    /\ UNCHANGED <<c99_vars, fileData, inst_vars, nloggers, log_file_, mutex_, min_level_,
                   async_mode_, stop_thread_, thr_vars, mgr_vars, pushed>>

\* std::lock_guard<std::mutex> file_lock(mutex_)
WorkerFileLock(l) ==
    /\ worker_thread_[l] = "flock"
    /\ mutex_[l] = {}
    /\ mutex_' = [mutex_ EXCEPT ![l] = {Worker(l)}]
    /\ worker_thread_' = [worker_thread_ EXCEPT ![l] = "insert"]
    /\ UNCHANGED <<c99_vars, fileData, inst_vars, nloggers, log_file_, min_level_,
                   async_mode_, log_queue_, stop_thread_, queue_mutex_, log_message,
                   thr_vars, mgr_vars, pushed>>

\* log_file_ << log_message
WorkerInsert(l) ==
    /\ worker_thread_[l] = "insert"
    /\ StreamInsert(l, log_message[l])
    /\ worker_thread_' = [worker_thread_ EXCEPT ![l] = "endl"]
    /\ UNCHANGED <<c99_vars, inst_vars, obj_vars, log_message, thr_vars, mgr_vars, pushed>>

\* << std::endl << std::flush
WorkerEndl(l) ==
    /\ worker_thread_[l] = "endl"
    /\ StreamInsert(l, <<Endl(log_message[l])>>)
    /\ log_message' = [log_message EXCEPT ![l] = <<>>]
    /\ worker_thread_' = [worker_thread_ EXCEPT ![l] = "relock"]
    /\ UNCHANGED <<c99_vars, inst_vars, obj_vars, thr_vars, mgr_vars, pushed>>

\* lock.lock(), then the end of the loop body, where file_lock is released
WorkerRelock(l) ==
    /\ worker_thread_[l] = "relock"
    /\ queue_mutex_[l] = {}
    /\ queue_mutex_' = [queue_mutex_ EXCEPT ![l] = {Worker(l)}]
    /\ mutex_' = [mutex_ EXCEPT ![l] = {}]
    /\ worker_thread_' = [worker_thread_ EXCEPT ![l] = "pop"]
    /\ UNCHANGED <<c99_vars, fileData, inst_vars, nloggers, log_file_, min_level_,
                   async_mode_, log_queue_, stop_thread_, log_message, thr_vars,
                   mgr_vars, pushed>>

WorkerStep(l) ==
    \/ WorkerLoop(l) \/ WorkerLock(l) \/ WorkerPred(l) \/ WorkerBlock(l)
    \/ WorkerPop(l) \/ WorkerFileLock(l) \/ WorkerInsert(l) \/ WorkerEndl(l)
    \/ WorkerRelock(l)

\* ------------------------------------------------------- LoggerManager
\* a caller enters LoggerManager::initialize(filename, min_level, async_mode)
\* or LoggerManager::shutdown()
MgrCall(op, filename, lvl, a) ==
    /\ mpc = "idle"
    /\ mcalls < MaxMgrCalls
    /\ op = "initialize" => nloggers < MaxLoggers
    /\ mcalls' = mcalls + 1
    /\ marg' = [op |-> op, filename |-> filename, lvl |-> lvl, async |-> a]
    /\ mpc' = "lock"
    /\ UNCHANGED <<c99_vars, fileData, inst_vars, obj_vars, worker_vars, thr_vars,
                   mret, mold, mlog, pushed>>

\* initialize and shutdown as the tests call them: while no log call is running
MgrBegin(op, filename, lvl, a) ==
    /\ \A t \in Threads : tpc[t] = "idle"
    /\ MgrCall(op, filename, lvl, a)

\* std::lock_guard<std::mutex> lock(inst.mutex)
MgrLock ==
    /\ mpc = "lock"
    /\ inst_mutex = {}
    /\ inst_mutex' = {Mgr}
    /\ mpc' = IF marg.op = "initialize" THEN "make" ELSE "reset"
    /\ UNCHANGED <<c99_vars, fileData, inst_logger, inst_initialized, obj_vars,
                   worker_vars, thr_vars, marg, mret, mold, mcalls, mlog, pushed>>

\* an initialize that drops the installed Logger when the constructor throws
LoggerCtorDropsInstalled ==
    /\ mpc = "make"
    /\ IF marg.filename = BAD
       THEN /\ inst_mutex' = {}
            /\ inst_logger' = nullptr
            /\ mlog' = Append(mlog, [op |-> marg.op, ok |-> FALSE, logger |-> nullptr])
            /\ mpc' = "idle"
            /\ marg' = NoMgrArg
            /\ UNCHANGED <<obj_vars, worker_thread_>>
       ELSE LET l == nloggers + 1
            IN  /\ nloggers' = l
                /\ log_file_' = [log_file_ EXCEPT ![l] = [name |-> marg.filename, open |-> TRUE]]
                /\ min_level_' = [min_level_ EXCEPT ![l] = marg.lvl]
                /\ async_mode_' = [async_mode_ EXCEPT ![l] = marg.async]
                /\ stop_thread_' = [stop_thread_ EXCEPT ![l] = FALSE]
                /\ worker_thread_' = [worker_thread_ EXCEPT ![l] =
                                         IF marg.async THEN "loop" ELSE "none"]
                /\ mpc' = "assign"
                /\ UNCHANGED <<inst_logger, inst_mutex, mlog, marg, mutex_, log_queue_,
                               queue_mutex_>>
    /\ UNCHANGED <<c99_vars, fileData, inst_initialized, log_message,
                   thr_vars, mret, mold, mcalls, pushed>>

\* std::make_unique<Logger>(filename, min_level, async_mode): the constructor,
\* which throws when the file cannot be opened; the exception leaves initialize
\* through the lock_guard
LoggerCtor ==
    /\ mpc = "make"
    /\ IF marg.filename = BAD
       THEN /\ inst_mutex' = {}
            /\ mlog' = Append(mlog, [op |-> marg.op, ok |-> FALSE, logger |-> nullptr])
            /\ mpc' = "idle"
            /\ marg' = NoMgrArg
            /\ UNCHANGED <<obj_vars, worker_thread_>>
       ELSE LET l == nloggers + 1
            IN  /\ nloggers' = l
                /\ log_file_' = [log_file_ EXCEPT ![l] = [name |-> marg.filename, open |-> TRUE]]
                /\ min_level_' = [min_level_ EXCEPT ![l] = marg.lvl]
                /\ async_mode_' = [async_mode_ EXCEPT ![l] = marg.async]
                /\ stop_thread_' = [stop_thread_ EXCEPT ![l] = FALSE]
                /\ worker_thread_' = [worker_thread_ EXCEPT ![l] =
                                         IF marg.async THEN "loop" ELSE "none"]
                /\ mpc' = "assign"
                /\ UNCHANGED <<inst_mutex, mlog, marg, mutex_, log_queue_, queue_mutex_>>
    /\ UNCHANGED <<c99_vars, fileData, inst_logger, inst_initialized, log_message,
                   thr_vars, mret, mold, mcalls, pushed>>

\* inst.logger = (the new Logger): the pointer is stored, then the Logger it
\* held before, if any, is destroyed
MgrAssign ==
    /\ mpc = "assign"
    /\ inst_logger' = nloggers
    /\ mold' = inst_logger
    /\ IF inst_logger # nullptr
       THEN mpc' = "dtor" /\ mret' = "set"
       ELSE mpc' = "set" /\ mret' = mret
    /\ UNCHANGED <<c99_vars, fileData, inst_initialized, inst_mutex, obj_vars,
                   worker_vars, thr_vars, marg, mcalls, mlog, pushed>>

\* inst.logger.reset(): the pointer is cleared, then the Logger it held, if
\* any, is destroyed
MgrReset ==
    /\ mpc = "reset"
    /\ inst_logger' = nullptr
    /\ mold' = inst_logger
    /\ IF inst_logger # nullptr
       THEN mpc' = "dtor" /\ mret' = "set"
       ELSE mpc' = "set" /\ mret' = mret
    /\ UNCHANGED <<c99_vars, fileData, inst_initialized, inst_mutex, obj_vars,
                   worker_vars, thr_vars, marg, mcalls, mlog, pushed>>

\* inst.initialized = true (initialize) or false (shutdown); the lock_guard
\* releases inst.mutex and the call returns
MgrSet ==
    /\ mpc = "set"
    /\ inst_initialized' = (marg.op = "initialize")
    /\ inst_mutex' = {}
    /\ mlog' = Append(mlog, [op |-> marg.op, ok |-> TRUE, logger |-> inst_logger])
    /\ mpc' = "idle"
    /\ marg' = NoMgrArg
    /\ UNCHANGED <<c99_vars, fileData, inst_logger, obj_vars, worker_vars, thr_vars,
                   mret, mold, mcalls, pushed>>

MgrStep == MgrLock \/ LoggerCtor \/ MgrAssign \/ MgrReset \/ MgrSet

\* ----------------------------------------------------------- Logger::~Logger
\* if (async_mode_) { stop_thread_ = true; ...
DtorStop ==
    /\ mpc = "dtor"
    /\ IF async_mode_[mold]
       THEN /\ stop_thread_' = [stop_thread_ EXCEPT ![mold] = TRUE]
            /\ mpc' = "notify"
       ELSE /\ mpc' = "close"
            /\ UNCHANGED stop_thread_
    /\ UNCHANGED <<c99_vars, fileData, inst_vars, nloggers, log_file_, mutex_, min_level_,
                   async_mode_, log_queue_, queue_mutex_, worker_vars, thr_vars,
                   marg, mret, mold, mcalls, mlog, pushed>>

\* cv_.notify_all()
DtorNotify ==
    /\ mpc = "notify"
    /\ Notify(mold)
    /\ mpc' = "join"
    /\ UNCHANGED <<c99_vars, fileData, inst_vars, obj_vars, log_message, thr_vars,
                   marg, mret, mold, mcalls, mlog, pushed>>

\* if (worker_thread_.joinable()) worker_thread_.join()
DtorJoin ==
    /\ mpc = "join"
    /\ worker_thread_[mold] = "exit"
    /\ worker_thread_' = [worker_thread_ EXCEPT ![mold] = "none"]
    /\ mpc' = "close"
    /\ UNCHANGED <<c99_vars, fileData, inst_vars, obj_vars, log_message, thr_vars,
                   marg, mret, mold, mcalls, mlog, pushed>>

\* if (log_file_.is_open()) log_file_.close(); back in initialize or shutdown
DtorClose ==
    /\ mpc = "close"
    /\ log_file_' = [log_file_ EXCEPT ![mold].open = FALSE]
    /\ mpc' = mret
    /\ UNCHANGED <<c99_vars, fileData, inst_vars, nloggers, mutex_, min_level_, async_mode_,
                   log_queue_, stop_thread_, queue_mutex_, worker_vars, thr_vars,
                   marg, mret, mold, mcalls, mlog, pushed>>

DtorStep == DtorStop \/ DtorNotify \/ DtorJoin \/ DtorClose

\* SpecCpp: two threads log at INFO through SLOG_INFO while another thread
\* initializes the manager on file "A" or on a file that cannot be opened,
\* with floor INFO or WARN, synchronous or asynchronous, and shuts it down
NextCpp ==
    \/ \E t \in Threads : SLogBegin(t, LOG_INFO)
    \/ \E t \in Threads : ThreadStep(t)
    \/ \E l \in Loggers : WorkerStep(l)
    \/ \E f \in {"A", BAD}, lvl \in {LOG_INFO, LOG_WARN}, a \in BOOLEAN :
          MgrBegin("initialize", f, lvl, a)
    \/ MgrBegin("shutdown", NULL, 0, FALSE)
    \/ MgrStep \/ DtorStep

SpecCpp == Init /\ [][NextCpp]_vars


\* ---------------------------------------------------------------- C16 (SpecCpp)
\* after the first n calls of initialize and shutdown that returned or threw,
\* a Logger is installed: the last of them that took effect (an initialize
\* whose constructor throws changes nothing) was an initialize
InstalledBy(n) ==
    {i \in 1..n : /\ mlog[i].ok /\ mlog[i].op = "initialize"
                  /\ \A j \in (i + 1)..n : ~ mlog[j].ok}
InstalledAt(n) == InstalledBy(n) # {}
InstalledLoggerAt(n) == mlog[CHOOSE i \in InstalledBy(n) : TRUE].logger

\* the finished log calls
LogCalls == {<<t, k>> : t \in Threads, k \in 1..MsgsPerThread}
Finished(c) == c[2] <= Len(thist[c[1]])
Call(c) == thist[c[1]][c[2]]

\* C16: LoggerManager::get() throws exactly when no Logger is installed: before
\* the first initialize that succeeds and after every shutdown; otherwise it
\* returns the Logger the last successful initialize constructed, a Logger
\* whose file is open
C16_GetRaisesUnlessInstalled ==
    /\ \A c \in LogCalls : Finished(c) =>
          /\ Call(c).got = runtime_error <=> ~ InstalledAt(Call(c).at)
          /\ Call(c).got # runtime_error => Call(c).got = InstalledLoggerAt(Call(c).at)
    /\ \A t \in Threads : tpc[t] # "idle" =>
          /\ InstalledAt(tcur[t].at)
          /\ tlog[t] = InstalledLoggerAt(tcur[t].at)
          /\ tlog[t] \in Loggers /\ log_file_[tlog[t]].open

\* C16 witness: a call before the first initialize got the exception, a call
\* after the initialize got its Logger, and a call after the shutdown got the
\* exception again
C16_Witness ==
    /\ Len(mlog) = 2 /\ mpc = "idle"
    /\ mlog[1].op = "initialize" /\ mlog[1].ok /\ mlog[2].op = "shutdown"
    /\ \E a, b, c \in LogCalls :
          /\ Finished(a) /\ Finished(b) /\ Finished(c)
          /\ Call(a).at = 0 /\ Call(a).got = runtime_error
          /\ Call(b).at = 1 /\ Call(b).got = mlog[1].logger
          /\ Call(c).at = 2 /\ Call(c).got = runtime_error


\* ---------------------------------------------------------------- C18 (SpecCpp)
\* the line a call's entry makes in the file: its log_message and the newline
EntryLine(m) == Append(m, Endl(m))

\* the finished calls a synchronous Logger wrote itself
SyncCalls == {c \in LogCalls : Finished(c) /\ Call(c).out = "sync"}

\* the threads between the lock and the unlock of the file mutex of Logger l
InStreamWrite(l) == {t \in Threads : tpc[t] \in {"insert", "endl"} /\ tlog[t] = l}

LogFileLines == Lines(fileData["A"])

\* C18: at most one thread at a time writes to the stream of a Logger; every
\* line of the file that ends in a newline is the whole entry of one single
\* call, timestamp, level tag, thread tag, message and newline; every call
\* that returned from a synchronous Logger has exactly one line; and when all
\* NumThreads * MsgsPerThread calls did so, the file has exactly that many lines
C18_SyncLinesWhole ==
    /\ \A l \in Loggers : Cardinality(InStreamWrite(l)) <= 1
    /\ \A i \in 1..Len(LogFileLines) :
          IsNewline(LogFileLines[i][Len(LogFileLines[i])]) =>
              \E c \in LogCalls, lvl \in LogLevel :
                  LogFileLines[i] = EntryLine(FormatLogMessage(c[1], c[2], lvl))
    /\ \A c \in SyncCalls :
          Cardinality({i \in 1..Len(LogFileLines) :
                          LogFileLines[i] = EntryLine(Call(c).log_message)}) = 1
    /\ SyncCalls = LogCalls => Len(LogFileLines) = NumThreads * MsgsPerThread

\* C18 witness: both threads made all their calls on a synchronous Logger, and
\* their lines alternate in the file
C18_Witness ==
    /\ SyncCalls = LogCalls
    /\ Len(LogFileLines) = NumThreads * MsgsPerThread
    /\ \A i \in 1..(Len(LogFileLines) - 1) :
          LogFileLines[i][1][1] # LogFileLines[i + 1][1][1]


\* ------------------------------------------------------------ C17 (SpecCppFair)
\* two threads log at INFO while another thread initializes the manager in
\* asynchronous mode on file "A" and shuts it down
NextCppAsync ==
    \/ \E t \in Threads : SLogBegin(t, LOG_INFO)
    \/ \E t \in Threads : WriteLogLevel(t) \/ QueueLock(t) \/ QueuePush(t)
    \/ \E l \in Loggers : WorkerStep(l)
    \/ MgrBegin("initialize", "A", LOG_INFO, TRUE)
    \/ MgrBegin("shutdown", NULL, 0, FALSE)
    \/ MgrStep \/ DtorStep

\* the threads inside a log call keep running; so does each worker thread,
\* which gets a mutex it waits for when that is free again and again
SpecCppFair ==
    /\ Init /\ [][NextCppAsync]_vars
    /\ \A t \in Threads : WF_vars(ThreadStep(t))
    /\ \A l \in Loggers : SF_vars(WorkerStep(l))

\* a line of the file without its newline
MsgOf(line) ==
    IF IsNewline(line[Len(line)]) THEN SubSeq(line, 1, Len(line) - 1) ELSE line

\* the messages of the queue of Logger l that are in its file, in file order
InFile(l) ==
    LET lines == Lines(fileData[log_file_[l].name])
        msgs == [i \in 1..Len(lines) |-> MsgOf(lines[i])]
        OfQueue(m) == \E j \in 1..Len(pushed[l]) : pushed[l][j] = m
    IN  IF nloggers < l THEN <<>> ELSE SelectSeq(msgs, OfQueue)

\* the lines of the file that hold a message of the queue of Logger l
LinesInFile(l) ==
    LET lines == Lines(fileData[log_file_[l].name])
        OfQueue(line) == \E j \in 1..Len(pushed[l]) : pushed[l][j] = MsgOf(line)
    IN  IF nloggers < l THEN <<>> ELSE SelectSeq(lines, OfQueue)

\* the message the worker of Logger l has taken out and not yet inserted
InHand(l) ==
    IF worker_thread_[l] \in {"flock", "insert"} THEN <<log_message[l]>> ELSE <<>>

\* the worker of Logger l has left worker_function
WorkerGone(l) == l <= nloggers /\ async_mode_[l] /\ worker_thread_[l] \in {"exit", "none"}

\* every message pushed to Logger l so far is in the file, as a whole line
\* and in the order pushed
AllPushedInFile(l) ==
    LinesInFile(l) = [j \in 1..Len(pushed[l]) |-> EntryLine(pushed[l][j])]

\* C17: in asynchronous mode the messages in the file, the one in the worker's
\* hands and the ones in the queue are together the messages pushed, each once
\* and in the order pushed; when the worker has left, the queue is empty and
\* every message pushed is in the file as a whole line; and every message
\* pushed gets into the file: again and again all that was pushed is in it
C17_QueuedWrittenOnceInOrder ==
    /\ [](\A l \in Loggers :
            /\ InFile(l) \o InHand(l) \o log_queue_[l] = pushed[l]
            /\ WorkerGone(l) => (log_queue_[l] = <<>> /\ AllPushedInFile(l)))
    /\ \A l \in Loggers : []<>AllPushedInFile(l)

\* C17 witness: a Logger is being destroyed, stop_thread_ set and the
\* destructor waiting for the worker, while messages of both threads were
\* pushed, the first is in the file and another is still in the queue
C17_Witness ==
    \E l \in Loggers :
        /\ mpc = "join" /\ mold = l /\ stop_thread_[l]
        /\ Len(pushed[l]) >= 3
        /\ pushed[l][1][1][1] # pushed[l][2][1][1]
        /\ Len(InFile(l)) >= 1
        /\ log_queue_[l] # <<>>

\* ------------------------------------------------------------------ C21
\* the step by which the writer thread leaves its loop (from the test at the
\* top of the loop, or from the test of running under the mutex)
WriterExits == wpc # "exit" /\ wpc' = "exit"

\* C21: the writer thread leaves its loop only when running is 0 and the
\* ring is empty: no exit of the writer leaves bytes in the ring
C21_WriterExitsDrained ==
    [][WriterExits => (running = 0 /\ count = 0 /\ count' = 0)]_vars

\* ------------------------------------------------------- C22 (SpecLifecycle)
\* one thread logs plain INFO messages between the lifecycle calls of another
\* thread, which starts, restarts, switches and stops the logger
NextLifecycle ==
    \/ \E p \in {1} : LogBegin(p, LOG_INFO, 0, FALSE)
    \/ \E p \in {1} : ProducerStep(p)
    \/ WriterStep
    \/ \E a \in {0, 1} :
          NoLogCallRunning /\ CtlCallWithin(MaxLifecycleCalls, "init", "A", LOG_DEBUG, a)
    \/ NoLogCallRunning /\ CtlCallWithin(MaxLifecycleCalls, "deinit", NULL, 0, 0)
    \/ InitStep \/ ShutdownStep \/ DeinitStep

SpecLifecycle == Init /\ [][NextLifecycle]_vars

\* logger_init at its test "if (async_mode && !logger.async_mode)"
InitAsyncTest == cpc = "i_async" /\ cpc' = "i_mode"

\* a writer thread exists: created and not yet joined
WriterExists == wpc # "none"

\* C22: a writer thread comes into existence only in logger_init called for
\* asynchronous mode, and while one exists logger_init creates none and leaves
\* the ring and its mutex alone (a logger_init for asynchronous mode in
\* asynchronous mode), so that there is never more than one, whatever the
\* sequence of logger_init and logger_deinit calls; between the calls a writer
\* thread exists and has not been stopped when the logger is in asynchronous
\* mode, and none exists otherwise
C22_OneWriter ==
    /\ [][(~WriterExists /\ WriterExists') => (InitAsyncTest /\ carg.async # 0)]_vars
    /\ [][(InitAsyncTest /\ WriterExists) => UNCHANGED <<wpc, ring_vars, mutex>>]_vars
    /\ [](cpc = "idle" /\ async_mode # 0 => WriterExists /\ wpc # "exit" /\ running # 0)
    /\ [](cpc = "idle" /\ async_mode = 0 => ~WriterExists)

\* C22 witness: asynchronous mode was started, asked for again, stopped and
\* started again, and a writer thread is at work
C22_Witness ==
    /\ Len(clog) = 4 /\ cpc = "idle"
    /\ clog[1].op = "init" /\ clog[1].async = 1 /\ clog[1].wasAsync = 0
    /\ clog[2].op = "init" /\ clog[2].async = 1 /\ clog[2].wasAsync = 1
    /\ clog[3].op = "deinit"
    /\ clog[4].op = "init" /\ clog[4].async = 1 /\ clog[4].wasAsync = 0
    /\ async_mode # 0 /\ wpc = "write"

\* --------------------------------------------------------- C23 (SpecCppTerm)
\* SpecCppFair with the thread inside LoggerManager::initialize or ::shutdown,
\* and inside the destructor they run, scheduled as well
SpecCppTerm ==
    /\ SpecCppFair
    /\ WF_vars(MgrStep) /\ WF_vars(DtorStep)

\* C23: the destructor of an asynchronous Logger, once it has set stop_thread_,
\* gets through notify_all and join and returns to LoggerManager::initialize
\* or ::shutdown, which returns: the worker sees the stop and leaves
\* worker_function, wherever it was when the destructor ran
C23_DestructorTerminates == (mpc = "notify") ~> (mpc = "idle")

\* --------------------------------------------------------- C24 (SpecFairAll)
\* SpecFair with the logging thread and the thread inside logger_init scheduled
\* as well: a thread inside a log call keeps running and gets the ring's mutex
\* when it is free again and again
SpecFairAll ==
    /\ SpecFair
    /\ SF_vars(ProducerStep(1)) /\ WF_vars(InitStep)

\* C24: every byte buffer_write accepted gets into a file: again and again
\* every byte accepted so far is in the output, once
C24_AcceptedBytesWritten ==
    []<>(\A c \in Calls : (Completed(c) /\ Rec(c).out = "async") =>
            \A i \in 1..Rec(c).acc :
                \E f \in FileNames : Occurrences(fileData[f], Rec(c).entry[i]) = 1)

\* ------------------------------------------------------- C25 (SpecLifecycle)
\* the bytes buffer_write accepted from the calls of history h, in call order
RECURSIVE AcceptedBy(_)
AcceptedBy(h) ==
    IF h = <<>> THEN <<>>
    ELSE (IF h[1].out = "async" THEN Take(h[1].entry, h[1].acc) ELSE <<>>)
         \o AcceptedBy(Tail(h))

\* the bytes the writer thread has taken out of the ring, in the order taken:
\* those it has written and those in temp_buffer
Removed == DataOf(SelectSeq(wlog, LAMBDA e : e.by = Writer)) \o temp

\* C25: with one logging thread, the bytes the writer thread has taken out of
\* the ring are at every moment the first bytes buffer_write accepted, in the
\* order accepted, and the ring holds the rest in that order, also when head
\* and tail have wrapped; so no slot is taken out that was not written since
\* it was last taken out
C25_RemovedIsPrefixOfAccepted ==
    LET acc == AcceptedBy(hist[1])
    IN  /\ Len(Removed) <= Len(acc)
        /\ Removed = Take(acc, Len(Removed))
        /\ Removed \o RingContents(buffer, tail, count) = acc

\* C25 witness: both entries of the thread were accepted whole in one
\* asynchronous session and taken out, the second across the end of the array
C25_Witness ==
    /\ Len(hist[1]) = 2
    /\ hist[1][1].acc = 4 /\ hist[1][2].acc = 4
    /\ Len(Removed) = 8 /\ tail = 1 /\ head = 1
    /\ wpc = "write"

\* ----------------------------------------------------------- C26 (SpecBytes)
\* two threads log while the logger is asynchronous, buffer_write taken one
\* memory access at a time; lifecycle calls and log calls do not overlap
NextBytes ==
    \/ \E p \in Producers : callNo[p] < RaceCalls /\ LogBegin(p, LOG_INFO, 0, FALSE)
    \/ \E p \in Producers : RaceProducerStep(p)
    \/ WriterStep
    \/ CtlBegin("init", "A", LOG_DEBUG, 1)
    \/ CtlBegin("deinit", NULL, 0, 0)
    \/ InitStep \/ ShutdownStep \/ DeinitStep

SpecBytes == Init /\ [][NextBytes]_vars

\* C26: the bytes of one log call lie next to each other in the ring: between
\* two bytes of a call the ring holds only bytes of that call, however the
\* threads inside buffer_write are interleaved
C26_EntriesContiguous ==
    LET r == RingContents(buffer, tail, count)
    IN  \A i, j \in 1..count :
            (i < j /\ r[i][1] = r[j][1] /\ r[i][2] = r[j][2]) =>
                \A m \in i..j : r[m][1] = r[i][1] /\ r[m][2] = r[i][2]

\* C26 witness: the ring holds the whole entry of thread 2 and, behind it, the
\* first two bytes of the entry thread 1 is copying in
C26_Witness ==
    LET r == RingContents(buffer, tail, count)
    IN  /\ count = 6
        /\ \A i \in 1..4 : r[i][1] = 2
        /\ \A i \in 5..6 : r[i][1] = 1
        /\ pc[1] = "rcopy" /\ cur[1].written = 2
        /\ mutex.owner = {1}

\* ------------------------------------------------------------------ C27
\* a chunk of the writer thread: 1 to MAX_LOG_ENTRY - 1 bytes, with no newline
\* before its last byte
IsChunk(data) ==
    /\ Len(data) >= 1 /\ Len(data) <= MAX_LOG_ENTRY - 1
    /\ \A i \in 1..(Len(data) - 1) : ~ IsNewline(data[i])

\* C27: an extraction takes the oldest bytes of the ring, in order, and stops
\* at the first newline, at MAX_LOG_ENTRY - 1 bytes or with the ring empty,
\* whichever comes first; what the writer thread holds for the file write and
\* what it has handed to it is each time 1 to MAX_LOG_ENTRY - 1 bytes with at
\* most one newline, and that one at the end
C27_ChunkShape ==
    /\ [](wpc = "write" => IsChunk(temp))
    /\ [](\A e \in 1..Len(wlog) : wlog[e].by = Writer => IsChunk(wlog[e].data))
    /\ [][(wpc = "check" /\ wpc' = "write") =>
            /\ temp' \o RingContents(buffer, tail', count') = RingContents(buffer, tail, count)
            /\ \/ IsNewline(temp'[Len(temp')])
               \/ Len(temp') = MAX_LOG_ENTRY - 1
               \/ count' = 0]_vars

\* C27 witness: the writer thread has written a chunk cut at MAX_LOG_ENTRY - 1
\* bytes, made of the piece of an entry and the start of the next one, and a
\* chunk that ends with a newline, and holds a chunk that emptied the ring
C27_Witness ==
    /\ \E e \in 1..Len(wlog) :
          /\ wlog[e].by = Writer /\ Len(wlog[e].data) = MAX_LOG_ENTRY - 1
          /\ ~ IsNewline(wlog[e].data[MAX_LOG_ENTRY - 1])
    /\ \E e \in 1..Len(wlog) :
          wlog[e].by = Writer /\ IsNewline(wlog[e].data[Len(wlog[e].data)])
    /\ wpc = "write" /\ count = 0 /\ ~ IsNewline(temp[Len(temp)])
    /\ Len(temp) < MAX_LOG_ENTRY - 1

\* ------------------------------------------------------------------ C28
\* C28: running goes from 1 to 0 only in logger_shutdown_async, in a step
\* taken with the ring's mutex held by the calling thread and the ring empty;
\* so while bytes are in the ring or the mutex is elsewhere, running stays
C28_StopOnlyWhenDrained ==
    [][(running # 0 /\ running' = 0) =>
          /\ cpc = "s_check" /\ cpc' = "s_join"
          /\ mutex.owner = {Ctl}
          /\ count = 0 /\ count' = 0]_vars

\* C28 witness: a call that found bytes in the ring has cleared running in
\* logger_shutdown_async, after they were taken out, and waits for the writer
\* thread
C28_Witness ==
    /\ cpc = "s_join" /\ running = 0 /\ count = 0
    /\ LastCall.pend # <<>>
    /\ wpc \in {"woken", "loop"}

\* ------------------------------------------------------------------ C29
\* C29: the writer thread holds the ring's mutex only between its lock and the
\* end of its extraction, so not while it writes to the file and not once it
\* has left its loop; a logging thread holds it only inside the copy loop of
\* buffer_write and has released it when the call returns, also when nothing
\* was stored; and no write to a file is made by a thread holding it
C29_MutexNotHeldAcrossIO ==
    /\ [](wpc # "check" => Writer \notin mutex.owner)
    /\ [](\A p \in Producers : pc[p] # "copy" => p \notin mutex.owner)
    /\ [][wlog' # wlog => /\ wlog'[Len(wlog')].by \notin mutex.owner
                          /\ wlog'[Len(wlog')].by \notin mutex'.owner]_vars

\* C29 witness: the writer thread is at its file write while a logging thread
\* holds the mutex inside buffer_write, after a call of buffer_write that
\* found the ring full, stored nothing and returned
C29_Witness ==
    /\ wpc = "write" /\ temp # <<>>
    /\ \E p \in Producers : pc[p] = "copy" /\ mutex.owner = {p}
    /\ \E c \in Calls : Completed(c) /\ Rec(c).out = "async" /\ Rec(c).acc = 0

\* ------------------------------------------------------------------ C30
\* C30: once a logger_deinit, or a logger_init for synchronous mode, that
\* found the logger asynchronous has returned, the ring is empty, also when
\* log calls ran while it ran
C30_RingEmptyAfterShutdown ==
    (/\ cpc = "idle" /\ clog # <<>>
     /\ LastCall.wasAsync # 0
     /\ LastCall.op = "deinit" \/ (LastCall.op = "init" /\ LastCall.async = 0))
        => count = 0

\* ------------------------------------------------------------------ C31
\* C31: every write of the writer thread goes to a descriptor that is open
\* when the write is made: never to one logger_setup_file or logger_deinit has
\* closed, and never to the -1 of a failed open
C31_WriterWritesToOpenFd ==
    \A e \in 1..Len(wlog) :
        wlog[e].by = Writer => (wlog[e].to # "EBADF" /\ wlog[e].fd # -1)

\* ------------------------------------------------------------------ C32
\* C32: a step that changes head, tail, count or running is taken by a thread
\* that holds the ring's mutex: a logging thread in buffer_write, the writer
\* thread in its extraction, the thread in logger_shutdown_async; the one
\* exception granted is logger_init_async, which sets the four fields before
\* it initialises the mutex
C32_RingChangedUnderMutex ==
    [][<<head, tail, count, running>>' # <<head, tail, count, running>> =>
          \/ cpc = "i_async"
          \/ \E p \in Producers : pc'[p] # pc[p] /\ p \in mutex.owner
          \/ pc' = pc /\ cpc' # cpc /\ Ctl \in mutex.owner
          \/ pc' = pc /\ cpc' = cpc /\ Writer \in mutex.owner]_vars

\* ---------------------------------------------------------- C33 (SpecFilter)
\* a program uses one of the two libraries: the C99 one, logging at every
\* level, plain and formatted, with the floor moved meanwhile, or the C++ one,
\* logging INFO at floor INFO or WARN
NextFilter ==
    \/ /\ mcalls = 0 /\ \A t \in Threads : tcalls[t] = 0
       /\ NextLevels
    \/ /\ ncalls = 0 /\ \A p \in Producers : callNo[p] = 0
       /\ NextCpp

SpecFilter == Init /\ [][NextFilter]_vars

\* C33: a step in which a log call is filtered by a level test, and the step
\* of a formatted call between its two level tests, changes nothing the
\* logger shares: not the files, the ring and its mutex, the timestamp buffer,
\* the configuration, the writer thread (which is not woken) or the record of
\* writes; likewise a filtered call of the C++ Logger changes neither the
\* files nor a Logger, its queue, its worker or the manager
C33_FilteredChangesNothing ==
    /\ [][\A p \in Producers :
            (FilteredInStep(p) \/ (pc[p] = "idle" /\ pc'[p] = "check")) =>
                UNCHANGED <<logger_vars, ring_vars, mutex, sync_mutex, logger_timestamp,
                            writer_vars, os_vars, wlog, ctl_vars>>]_vars
    /\ [][\A t \in Threads :
            (/\ Len(thist'[t]) = Len(thist[t]) + 1
             /\ thist'[t][Len(thist'[t])].out = "filtered") =>
                UNCHANGED <<fileData, inst_vars, obj_vars, worker_vars, mgr_vars, pushed>>]_vars

\* C33 witness: in asynchronous mode, with the writer thread waiting, a plain
\* call was filtered and a formatted call was filtered at its second level
\* test, the floor having been raised after its first
C33_Witness ==
    /\ async_mode # 0 /\ wpc = "waiting" /\ count = 0
    /\ Len(hist[1]) = 2
    /\ hist[1][1].out = "filtered" /\ ~ hist[1][1].fmt
    /\ hist[1][2].out = "filtered" /\ hist[1][2].fmt
    /\ hist[1][2].lvl >= hist[1][1].floor
    /\ wlog = <<>>

\* ------------------------------------------------------ C34 (SpecLifecycle)
\* C34: no step of a logger_init call that asks for asynchronous mode and was
\* entered in asynchronous mode changes head, tail, count, running, the bytes
\* of the ring, its mutex or the writer thread: what the ring holds stays
\* there for the one writer
C34_ReinitAsyncKeepsRing ==
    [][(/\ cpc' # cpc
        /\ cpc # "idle"
        /\ carg.op = "init" /\ carg.async # 0
        /\ clog[Len(clog)].wasAsync # 0) =>
            UNCHANGED <<ring_vars, writer_vars, mutex>>]_vars

\* C34 witness: such a call has returned with an entry still in the ring, the
\* writer thread alive and running set
C34_Witness ==
    /\ cpc = "idle" /\ Len(clog) >= 2
    /\ clog[Len(clog)].op = "init" /\ clog[Len(clog)].async # 0
    /\ clog[Len(clog)].wasAsync # 0
    /\ count > 0 /\ running = 1 /\ wpc # "none" /\ wpc # "exit"
    /\ async_mode # 0

\* ------------------------------------------------------ C35 (SpecLifecycle)
\* C35: the step of logger_init that enables asynchronous mode on a
\* synchronous logger leaves head = tail = count = 0 and running = 1, and
\* these still hold when logger_init then sets async_mode
C35_AsyncStartsEmpty ==
    /\ [][(InitAsyncTest /\ carg.async # 0 /\ async_mode = 0) =>
            (head' = 0 /\ tail' = 0 /\ count' = 0 /\ running' = 1)]_vars
    /\ [][(async_mode = 0 /\ async_mode' # 0) =>
            (head' = 0 /\ tail' = 0 /\ count' = 0 /\ running' = 1)]_vars

\* C35 witness: asynchronous mode is enabled again after an earlier
\* asynchronous session was ended; the ring still holds that session's bytes
\* and its writes are on record, and logger_init_async has just run
C35_Witness ==
    /\ cpc = "i_mode" /\ carg.op = "init" /\ carg.async # 0 /\ async_mode = 0
    /\ \E k \in 1..(Len(clog) - 1) : clog[k].op = "init" /\ clog[k].async # 0
    /\ buffer # ZeroBuffer
    /\ \E e \in 1..Len(wlog) : wlog[e].by = Writer
    /\ head = 0 /\ tail = 0 /\ count = 0 /\ running = 1 /\ wpc = "loop"

\* ----------------------------------------------------------- C36 (SpecFiles)
\* one producer logging between lifecycle calls, and up to MaxFileCalls calls
\* of logger_init (on a file that opens, one that does not, or stderr, in
\* either mode), logger_deinit and logger_reset
NextFiles ==
    \/ \E p \in {1} : LogBegin(p, LOG_INFO, 0, FALSE)
    \/ \E p \in {1} : ProducerStep(p)
    \/ WriterStep
    \/ \E f \in {"A", BAD, NULL}, a \in {0, 1} :
          NoLogCallRunning /\ CtlCallWithin(MaxFileCalls, "init", f, LOG_DEBUG, a)
    \/ NoLogCallRunning /\ CtlCallWithin(MaxFileCalls, "deinit", NULL, 0, 0)
    \/ NoLogCallRunning /\ CtlCallWithin(MaxFileCalls, "reset", NULL, 0, 0)
    \/ InitStep \/ ShutdownStep \/ DeinitStep
    \/ ResetBegin \/ ResetFinish

SpecFiles == Init /\ [][NextFiles]_vars

C37_FailedInitializeChangesNothing ==
    /\ [][(mpc = "make" /\ mpc' # mpc /\ marg.filename = BAD) =>
            /\ mpc' = "idle" /\ inst_mutex' = {}
            /\ mlog' = Append(mlog, [op |-> "initialize", ok |-> FALSE, logger |-> nullptr])
            /\ UNCHANGED <<inst_logger, inst_initialized, obj_vars, worker_vars,
                           fileData>>]_vars
    /\ []((mpc = "idle" /\ Len(mlog) > 0 /\ ~ mlog[Len(mlog)].ok) =>
            IF InstalledAt(Len(mlog) - 1)
            THEN /\ get = InstalledLoggerAt(Len(mlog) - 1)
                 /\ log_file_[get].open /\ ~ stop_thread_[get]
            ELSE get = runtime_error)

\* C37 witness: an initialize succeeded, a second one failed on its file, and
\* a log call made after the failure went through the first Logger to the end
C37_Witness ==
    /\ Len(mlog) = 2 /\ mpc = "idle"
    /\ mlog[1].op = "initialize" /\ mlog[1].ok
    /\ mlog[2].op = "initialize" /\ ~ mlog[2].ok
    /\ \E t \in Threads : \E k \in 1..Len(thist[t]) :
          /\ thist[t][k].at = 2
          /\ thist[t][k].got = mlog[1].logger
          /\ thist[t][k].out \notin {"filtered", "throw"}
          /\ IsInfix(thist[t][k].log_message, fileData["A"])

\* ----------------------------------------------------------- C38 (SpecFiles)
\* C38: a logger_deinit entered on a synchronous logger writing to stderr, or
\* entered as the call that follows another logger_deinit, goes through none
\* of the steps of logger_shutdown_async, and none of its steps changes the
\* logger's configuration, the ring, a mutex, the writer thread, a descriptor
\* or a file
C38_DeinitIdempotent ==
    [][(/\ cpc' # cpc /\ cpc # "idle"
        /\ carg.op = "deinit"
        /\ \/ clog[Len(clog)].wasAsync = 0 /\ clog[Len(clog)].oldFd = LOGGER_STDERR
           \/ Len(clog) >= 2 /\ clog[Len(clog) - 1].op = "deinit") =>
            /\ cpc' \in {"d_close", "d_mode", "idle"}
            /\ UNCHANGED <<logger_vars, ring_vars, mutex, sync_mutex, writer_vars,
                           os_vars, wlog>>]_vars

\* C38 witness: an asynchronous logger on a file was deinitialized twice in a
\* row; the first call joined the writer and closed the file, the second was
\* entered on a synchronous logger on stderr and has returned
C38_Witness ==
    /\ cpc = "idle" /\ Len(clog) = 3
    /\ clog[1].op = "init" /\ clog[1].filename = "A" /\ clog[1].async # 0
    /\ clog[2].op = "deinit" /\ clog[2].wasAsync # 0 /\ clog[2].oldFd > LOGGER_STDERR
    /\ clog[3].op = "deinit" /\ clog[3].wasAsync = 0 /\ clog[3].oldFd = LOGGER_STDERR
    /\ async_mode = 0 /\ file = LOGGER_STDERR
    /\ \E e \in 1..Len(wlog) : wlog[e].by = Writer

\* ---------------------------------------------------------- C39 (SpecFormat)
\* the characters of a format string: the two of the placeholder and one other
FormatChars == {"{", "}", "a"}

\* the format strings of at most MaxFmtLen characters
Formats == UNION {[1..n -> FormatChars] : n \in 0..MaxFmtLen}

\* what operator<< puts on the stream for an argument: some text without a
\* brace, a closing brace, or text that is itself a placeholder
ArgTexts == {<<"x">>, <<"y">>, <<"}">>, <<"{", "}">>}

\* the argument packs of the formatting calls: one to MaxArgs arguments
ArgPacks == UNION {[1..n -> ArgTexts] : n \in 1..MaxArgs}

\* format.find("{}"): the first position (from 1) where "{}" starts, or 0,
\* a position no string has, for std::string::npos
find(format) ==
    LET at == {i \in 1..(Len(format) - 1) : format[i] = "{" /\ format[i + 1] = "}"}
    IN  IF at = {} THEN 0 ELSE CHOOSE i \in at : \A j \in at : i <= j

\* format.substr(pos): from position pos (from 1) to the end
substr(format, pos) == SubSeq(format, pos, Len(format))

\* a one-argument format_message that leaves out what follows the placeholder
RECURSIVE FormatMessageNoTail(_, _)
FormatMessageNoTail(format, args) ==
    LET pos == find(format)
    IN  IF pos = 0
        THEN format
        ELSE IF Len(args) = 1
             THEN SubSeq(format, 1, pos - 1) \o args[1]
             ELSE SubSeq(format, 1, pos - 1) \o args[1]
                     \o FormatMessageNoTail(substr(format, pos + 2), Tail(args))

\* Logger::format_message, both overloads: what the call puts on ss.  With
\* one argument: the text before the first placeholder, the value, and the
\* rest of the format as it is; with more: the text before, the value, and
\* format_message of the rest with the remaining arguments; the whole format
\* when it has no placeholder
RECURSIVE format_message(_, _)
format_message(format, args) ==
    LET pos == find(format)
    IN  IF pos = 0
        THEN format
        ELSE IF Len(args) = 1
             THEN SubSeq(format, 1, pos - 1) \o args[1] \o substr(format, pos + 2)
             ELSE SubSeq(format, 1, pos - 1) \o args[1]
                     \o format_message(substr(format, pos + 2), Tail(args))

\* thread 1 is about to call Logger::log(level, format, args...) with some
\* format and some arguments
InitFormat ==
    /\ C99Init
    /\ CppInitNoCall
    /\ \E f \in Formats, a \in ArgPacks :
          tcur = [t \in Threads |->
                    IF t = 1
                    THEN [k |-> 1, lvl |-> LOG_INFO, at |-> 0, log_message |-> <<>>,
                          format |-> f, args |-> a]
                    ELSE NoLogCall]

\* Logger::log: std::ostringstream ss; format_message(ss, format, args...);
\* ss.str() is the message handed to write_log
LogFormat(t) ==
    /\ tpc[t] = "idle"
    /\ tcur[t] # NoLogCall
    /\ thist' = [thist EXCEPT ![t] = Append(@,
                    [k |-> tcur[t].k, lvl |-> tcur[t].lvl, at |-> tcur[t].at,
                     got |-> nullptr, out |-> "formatted",
                     format |-> tcur[t].format, args |-> tcur[t].args,
                     log_message |-> format_message(tcur[t].format, tcur[t].args)])]
    /\ tcur' = [tcur EXCEPT ![t] = NoLogCall]
    /\ UNCHANGED <<c99_vars, fileData, inst_vars, obj_vars, worker_vars, tpc, tlog, tcalls,
                   mgr_vars, pushed>>

NextFormat == \E t \in Threads : LogFormat(t)

SpecFormat == InitFormat /\ [][NextFormat]_vars

\* the format read once from left to right: each "{}" met is the next
\* placeholder, and gives the i-th argument if there is one, else itself; any
\* other character gives itself
RECURSIVE Expand(_, _, _)
Expand(format, i, args) ==
    IF format = <<>> THEN <<>>
    ELSE IF Len(format) >= 2 /\ format[1] = "{" /\ format[2] = "}"
         THEN (IF i <= Len(args) THEN args[i] ELSE <<"{", "}">>)
                 \o Expand(substr(format, 3), i + 1, args)
         ELSE <<format[1]>> \o Expand(Tail(format), i, args)

\* the number of placeholders of a format
RECURSIVE Placeholders(_)
Placeholders(format) ==
    IF find(format) = 0 THEN 0
    ELSE 1 + Placeholders(substr(format, find(format) + 2))

\* the total length of the first n arguments
RECURSIVE LenOfFirst(_, _)
LenOfFirst(args, n) == IF n = 0 THEN 0 ELSE Len(args[n]) + LenOfFirst(args, n - 1)

\* C39: the message of a formatted call is its format with the i-th
\* placeholder from the left replaced by the i-th argument, the placeholders
\* past the last argument left as "{}", the arguments past the last
\* placeholder unused, and the inserted text taken as it is (a "{}" or "}" in
\* an argument makes no placeholder); so its length is that of the format,
\* less two per replaced placeholder, plus the lengths of the arguments used
C39_PlaceholdersFilledInOrder ==
    \A t \in Threads : \A k \in 1..Len(thist[t]) :
        thist[t][k].out = "formatted" =>
            LET r == thist[t][k]
                used == Min(Placeholders(r.format), Len(r.args))
            IN  /\ r.log_message = Expand(r.format, 1, r.args)
                /\ Len(r.log_message) =
                      Len(r.format) - 2 * used + LenOfFirst(r.args, used)
                /\ Placeholders(r.format) = 0 => r.log_message = r.format

\* C39 witness: a format of three placeholders was given two arguments, the
\* first of them the text "{}": the message is that text, the second
\* argument, and the third placeholder as it was
C39_Witness ==
    /\ Len(thist[1]) = 1 /\ thist[1][1].out = "formatted"
    /\ thist[1][1].format = <<"{", "}", "{", "}", "{", "}">>
    /\ thist[1][1].args = <<<<"{", "}">>, <<"x">>>>
    /\ thist[1][1].log_message = <<"{", "}", "x", "{", "}">>

====
